---- MODULE Spec2Model ----
(***************************************************************************)
(* A model of the discovery engine of rss-discovery-engine                 *)
(* (crawler/engine.py, crawler/utils.py, crawler/network.py, models.py):   *)
(* the frontier, the per-domain gate and blacklist, the checkpoint store   *)
(* and the main loop of RecursiveBlogDiscovery.run_discovery.              *)
(*                                                                         *)
(* A URL is a record [scheme, host, path]; a host and a domain are the     *)
(* sequence of their dot-separated labels, so "blog.b.org" is              *)
(* <<"blog", "b", "org">> and the empty domain "" is <<>>.  An optional    *)
(* value (Python None or x) is the sequence <<>> or <<x>>.  Wall-clock     *)
(* timestamps (timestamp, discovered_at) and the attempt number that is    *)
(* only logged are not part of the model.                                  *)
(***************************************************************************)
EXTENDS Integers, Sequences, FiniteSets, TLC

\* ---------------------------------------------------------------- bounds
MaxRuns == 2        \* engine instances one state passes through (resumes + 1)
MaxTarget == 2      \* largest max_blogs an instance is constructed with
MaxInterval == 2    \* largest checkpoint_interval (settings.CHECKPOINT_INTERVAL)
MaxNow == 4         \* the last second of the clock the Fetcher is run against
MaxSaved == 4       \* most records save_results is handed
MaxLabels == 5      \* most labels of a domain get_base_domain is handed

\* ------------------------------------------------------------ sequences
Range(s) == {s[i] : i \in 1..Len(s)}

None == <<>>
Some(x) == <<x>>

\* list(a_set): some enumeration of the members, each exactly once
SetToList(S) ==
  CHOOSE s \in [1..Cardinality(S) -> S] : Range(s) = S

\* temp_list.insert(pos, x); deque(temp_list), pos counted from 0
InsertAt(q, pos, x) ==
  SubSeq(q, 1, pos) \o <<x>> \o SubSeq(q, pos + 1, Len(q))

Max(a, b) == IF a >= b THEN a ELSE b

\* ------------------------------------------------------------ the web
Url(scheme, host, path) == [scheme |-> scheme, host |-> host, path |-> path]

HostA == <<"a", "com">>
HostB == <<"b", "org">>
HostSub == <<"blog", "b", "org">>

SeedA == Url("https", HostA, "/")
SeedWwwA == Url("https", <<"WWW", "A", "com">>, "/")
SeedSub == Url("https", HostSub, "/")
SeedBad == Url("", <<>>, "seeds")      \* a seed line urlparse finds no host in

\* the seed lists (seeds.txt) the engine is run with: two seeds of one
\* canonical domain, a seed and a subdomain seed, a seed and a line without
\* a host
SeedLists ==
  {<<SeedA, SeedWwwA>>, <<SeedA, SeedSub>>, <<SeedA, SeedBad>>}

\* the anchors posts carry: a post of each of the sites
LinkA == Url("https", HostA, "/post1")
LinkB == Url("https", HostB, "/post1")
LinkSub == Url("https", HostSub, "/post1")

\* the sites of the end-to-end scenario of the specification, under the
\* reserved top-level domain it names and under one that config.py allows
HostAExample == <<"a", "example">>
HostBExample == <<"b", "example">>
HostANet == <<"a", "net">>
HostBNet == <<"b", "net">>

SeedAExample == Url("https", HostAExample, "/")
SeedANet == Url("https", HostANet, "/")
LinkBExample == Url("https", HostBExample, "/post1")
LinkBNet == Url("https", HostBNet, "/post1")

EndToEndSeedLists == {<<SeedAExample>>, <<SeedANet>>}

\* sites on blog-hosting platforms (config.py BLACKLIST_BASE_DOMAIN_SITES):
\* two blogs of github.io, and tumblr.com itself
HostGithubX == <<"x", "github", "io">>
HostGithubY == <<"y", "github", "io">>
HostTumblr == <<"tumblr", "com">>

SeedGithubX == Url("https", HostGithubX, "/")
SeedGithubY == Url("https", HostGithubY, "/")
SeedTumblr == Url("https", HostTumblr, "/")
LinkGithubY == Url("https", HostGithubY, "/post1")

PlatformSeedLists ==
  {<<SeedGithubX, SeedGithubY>>, <<SeedTumblr, SeedBad>>, <<SeedSub>>}

\* str.lower() on the labels that occur
Lower(label) ==
  CASE label = "WWW" -> "www"
    [] label = "A" -> "a"
    [] OTHER -> label

LowerHost(host) == [i \in 1..Len(host) |-> Lower(host[i])]

\* crawler/utils.py extract_domain
extract_domain(url) ==
  LET domain == LowerHost(url.host)
  IN IF Len(domain) > 1 /\ domain[1] = "www"
       THEN SubSeq(domain, 2, Len(domain))
       ELSE domain

\* get_base_domain without its exception for compound suffixes
CompoundSuffixLabels_None == {}

\* crawler/utils.py get_base_domain 36
CompoundSuffixLabels == {"co", "com", "ac", "gov", "org", "net"}

\* crawler/utils.py get_base_domain
get_base_domain(domain) ==
  LET n == Len(domain)
  IN IF n = 0 THEN <<>>
     ELSE IF n <= 2 THEN domain
     ELSE IF domain[n - 1] \in CompoundSuffixLabels
       THEN SubSeq(domain, n - 2, n)
       ELSE SubSeq(domain, n - 1, n)

\* config.py BLACKLIST_BASE_DOMAIN_SITES
BLACKLIST_BASE_DOMAIN_SITES ==
  {<<"blogspot", "com">>, <<"wordpress", "com">>, <<"tumblr", "com">>,
   <<"medium", "com">>, <<"substack", "com">>, <<"github", "io">>,
   <<"netlify", "app">>, <<"vercel", "app">>}

\* ------------------------------------------------------ link candidates
\* config.py Settings.ALLOWED_EXTENSIONS, as last labels
ALLOWED_EXTENSIONS ==
  {"com", "org", "net", "edu", "gov", "mil", "int",
   "io", "co", "ai", "dev", "app", "me", "info", "biz", "xyz", "tech", "site",
   "online",
   "uk", "ca", "au", "nz", "de", "fr", "jp", "tr", "br", "in",
   "us", "eu", "nl", "se", "no", "es", "it", "ch", "at", "dk",
   "be", "pl", "ru", "cn", "kr", "sg", "hk", "tw"}

\* config.py Settings.SKIP_DOMAINS, as label sequences
SKIP_DOMAINS ==
  {<<"twitter", "com">>, <<"facebook", "com">>, <<"linkedin", "com">>,
   <<"instagram", "com">>, <<"youtube", "com">>, <<"github", "com">>,
   <<"wikipedia", "org">>, <<"reddit", "com">>, <<"medium", "com">>,
   <<"substack", "com">>, <<"ghost", "org">>, <<"wordpress", "com">>,
   <<"google", "com">>, <<"amazon", "com">>, <<"microsoft", "com">>,
   <<"apple", "com">>, <<"nytimes", "com">>, <<"wsj", "com">>,
   <<"bbc", "com">>, <<"cnn", "com">>, <<"reuters", "com">>,
   <<"bloomberg", "com">>, <<"forbes", "com">>, <<"techcrunch", "com">>,
   <<"wired", "com">>, <<"theverge", "com">>, <<"arstechnica", "com">>,
   <<"ycombinator", "com">>, <<"stackoverflow", "com">>, <<"quora", "com">>,
   <<"pinterest", "com">>, <<"tiktok", "com">>}

\* config.py Settings.DANGEROUS_EXTENSIONS
DANGEROUS_EXTENSIONS ==
  {".pdf", ".jpg", ".jpeg", ".png", ".gif", ".svg", ".mp4", ".mp3",
   ".zip", ".tar", ".gz", ".rar", ".exe", ".dmg", ".iso", ".bin",
   ".css", ".js", ".json", ".xml", ".csv", ".txt", ".doc", ".docx",
   ".xls", ".xlsx", ".ppt", ".pptx"}

\* config.py Settings.BLOG_INDICATORS
BLOG_INDICATORS ==
  {"blog", "posts", "articles", "wordpress", "blogspot", "medium.com",
   "substack", "ghost.io", "write.as", "tumblr", "github.io", "netlify.app"}

\* validation.py is_safe_url: suspicious_patterns
SuspiciousPatterns ==
  {"download", "exec", "install", "setup", "/bin/", "/sbin/", "/usr/bin/",
   "malware", "virus", "exploit", "hack", "phishing", "scam", "fraud"}

\* `word in url_lower`: the listed words that occur in the URLs of the
\* model, label by label and path by path
WordsIn(text) ==
  CASE text = "blog" -> {"blog"}
    [] text = "tumblr" -> {"tumblr"}
    [] text = "/post1" -> {"post"}
    [] OTHER -> {}

WordsOf(url) ==
  UNION {WordsIn(LowerHost(url.host)[i]) : i \in 1..Len(url.host)}
    \cup WordsIn(url.path)

\* path.endswith(ext): the extension the paths of the model end with
PathExtension(path) ==
  CASE path \in {"/index.xml", "/rss.xml", "/feed.xml", "/atom.xml"} -> ".xml"
    [] OTHER -> ""

\* crawler/validation.py is_safe_url
is_safe_url(url) ==
  /\ PathExtension(url.path) \notin DANGEROUS_EXTENSIONS
  /\ \A pattern \in SuspiciousPatterns \cap WordsOf(url) :
       /\ pattern \in {"download", "install"}
       /\ WordsOf(url) \cap {"blog", "post", "article"} # {}

\* any top-level domain passes
AllowedTld_Any(domain) == TRUE

\* crawler/validation.py is_likely_blog 62: the host ends with an allowed
\* extension
AllowedTld(domain) ==
  Len(domain) >= 2 /\ domain[Len(domain)] \in ALLOWED_EXTENSIONS

\* crawler/validation.py is_likely_blog; `skip in domain` is compared on
\* whole labels
is_likely_blog(url) ==
  LET domain == LowerHost(url.host)
      n == Len(domain)
  IN /\ is_safe_url(url)
     /\ ~\E i \in 1..(n - 1) : SubSeq(domain, i, i + 1) \in SKIP_DOMAINS
     /\ AllowedTld(domain)
     /\ \/ WordsOf(url) \cap BLOG_INDICATORS # {}
        \/ n - 1 <= 2 /\ (n = 0 \/ domain[1] # "www")

\* crawler/parser.py extract_blog_links: `content` is the sequence of the
\* absolute hrefs of the anchors in the post's HTML; list(set(links)) is
\* taken in one of its orders
extract_blog_links(content, source_url) ==
  IF content = <<>> THEN <<>>
  ELSE LET links == {Url(content[i].scheme, content[i].host, "") :
                       i \in {j \in 1..Len(content) :
                                /\ content[j].scheme \in {"http", "https"}
                                /\ is_likely_blog(content[j])}}
       IN SetToList(links)

\* ------------------------------------------------------- feed discovery
\* discover_feeds without its generic fallback paths
CommonFeeds_None == <<>>

\* crawler/network.py discover_feeds: common_feeds
CommonFeeds ==
  <<"/feed/", "/feed", "/rss/", "/rss", "/atom/", "/atom", "/index.xml",
    "/rss.xml", "/feed.xml", "/atom.xml", "/blog/feed/", "/blog/feed",
    "/blog/rss/", "/blog/rss">>

\* what robots.txt and the sitemaps of a site give check_sitemap: the paths
\* of the Sitemap: lines of robots.txt (none also when robots.txt is not
\* served), the position in the list of paths tried of the first sitemap
\* that lists feed-like <loc> URLs (0: none does), and those URLs
NoSitemap == [named |-> <<>>, feeds_at |-> 0, feeds |-> <<>>]

\* What the root fetch of a site can give: a failed fetch (the exception
\* raised), a document the parser chokes on, or a parsed document with the
\* hrefs of its <link type="application/rss+xml"> tags.
Pages ==
  {[fetch |-> "Timeout", parses |-> TRUE, link_feeds |-> <<>>, sitemap |-> NoSitemap],
   [fetch |-> "ok", parses |-> FALSE, link_feeds |-> <<>>, sitemap |-> NoSitemap],
   [fetch |-> "ok", parses |-> TRUE, link_feeds |-> <<>>, sitemap |-> NoSitemap],
   [fetch |-> "ok", parses |-> TRUE, link_feeds |-> <<"/index.xml">>,
    sitemap |-> NoSitemap]}

\* the feed paths a site may answer with posts
ServedPaths == {"/index.xml", "/feed/"}

\* for feed_path in common_feeds: if feed_url not in feed_urls: append
RECURSIVE AppendMissing(_, _)
AppendMissing(feed_urls, more) ==
  IF more = <<>> THEN feed_urls
  ELSE AppendMissing(IF Head(more) \in Range(feed_urls) THEN feed_urls
                     ELSE Append(feed_urls, Head(more)),
                     Tail(more))

\* crawler/network.py check_sitemap 83-84: the fallback locations
FallbackSitemaps ==
  <<"/sitemap.xml", "/sitemap_index.xml", "/sitemap-index.xml", "/rss-sitemap.xml">>

\* crawler/network.py check_sitemap: the URLs it returns and the paths it
\* requested, robots.txt first, then the sitemaps up to the first that lists
\* feeds
check_sitemap(page) ==
  LET named == page.sitemap.named
      sitemap_paths == IF named = <<>> THEN FallbackSitemaps ELSE named
      k == page.sitemap.feeds_at
      hit == k \in 1..Len(sitemap_paths)
      sitemap_urls == IF hit THEN page.sitemap.feeds ELSE <<>>
  IN [urls |-> IF Len(sitemap_urls) > 10 THEN SubSeq(sitemap_urls, 1, 10)
               ELSE sitemap_urls,
      requested |-> <<"/robots.txt">> \o
                    SubSeq(sitemap_paths, 1, IF hit THEN k ELSE Len(sitemap_paths))]

\* crawler/network.py discover_feeds 118-120 only: the handlers that name
\* their exception
Caught_Named(exc) == exc \in {"Timeout", "ConnectionError", "HTTPError"}

\* crawler/network.py discover_feeds 118-131: Timeout, ConnectionError,
\* HTTPError, and `except Exception` for the rest
Caught(exc) == TRUE

\* the exception leaves discover_feeds
Raised == <<<<>>, "raised">>

\* crawler/network.py discover_feeds: (feed_urls, status)
discover_feeds(page) ==
  IF page.fetch # "ok"
    THEN IF Caught(page.fetch) THEN <<<<>>, "unreachable">> ELSE Raised
  ELSE IF ~page.parses THEN <<<<>>, "unreachable">>
  ELSE LET sitemap_feeds == check_sitemap(page).urls
           has_blog_indicators == page.link_feeds # <<>> \/ sitemap_feeds # <<>>
           all == AppendMissing(page.link_feeds \o sitemap_feeds, CommonFeeds)
           feed_urls == IF Len(all) > 15
                          THEN SubSeq(all, 1, 10) \o SubSeq(all, 11, 15)
                          ELSE all
       IN IF feed_urls # <<>> THEN <<feed_urls, "success">>
          ELSE IF has_blog_indicators THEN <<feed_urls, "has_blog_indicators">>
          ELSE <<feed_urls, "no_blog_indicators">>

\* ----------------------------------------------------------------- posts
\* A post of a fetched feed: its title, its link, its published timestamp
\* and the anchors of its raw HTML.
PostTitle(n) == <<"post", n>>
PostLink(n) == <<"link", n>>

Post(n, anchors) ==
  [title |-> PostTitle(n), link |-> PostLink(n), published_timestamp |-> n,
   raw_html_content |-> anchors]

\* the non-empty results of fetch_feed that sites answer with: one post
\* without links, or with a link to one of the domains
FeedPosts ==
  {<<Post(1, <<>>)>>,
   <<Post(1, <<LinkA>>)>>,
   <<Post(1, <<LinkB>>)>>,
   <<Post(1, <<LinkSub>>)>>}

\* what the sites of the end-to-end scenario answer with: two posts, one of
\* them with an anchor to a post of the neighbour under the same top-level
\* domain
EndToEndPosts(blog_url) ==
  LET link == IF blog_url.host[Len(blog_url.host)] = "example"
                THEN LinkBExample ELSE LinkBNet
  IN {<<Post(2, <<>>), Post(1, <<link>>)>>,
      <<Post(1, <<link>>), Post(2, <<>>)>>}

\* what the sites on the platforms answer with: one post, without links or
\* with a link to a blog of github.io
PlatformPosts ==
  {<<Post(1, <<>>)>>,
   <<Post(1, <<LinkGithubY>>)>>}

\* the non-empty post lists the feed of a site can give
SitePosts(blog_url) ==
  IF LowerHost(blog_url.host) \in {HostAExample, HostBExample, HostANet, HostBNet}
    THEN EndToEndPosts(blog_url)
  ELSE IF LowerHost(blog_url.host) \in {HostGithubX, HostGithubY, HostTumblr}
    THEN PlatformPosts
    ELSE FeedPosts

\* max(posts, key=lambda p: p['published_timestamp']): the first maximum
LatestPost(posts) ==
  LET best == CHOOSE i \in 1..Len(posts) :
                /\ \A j \in 1..Len(posts) :
                     posts[j].published_timestamp <= posts[i].published_timestamp
                /\ \A j \in 1..(i - 1) :
                     posts[j].published_timestamp < posts[i].published_timestamp
  IN posts[best]

\* ----------------------------------------------------------------- state
VARIABLES
  pc,                      \* where the process is: "boot", "constructed",
                           \* "loop", "classify", "feeds", "after", "done",
                           \* "interrupted"
  run,                     \* engine instances the state in memory has passed
                           \* through: 1 after a fresh start, +1 per resume
  cfg,                     \* the constructor's arguments (the command line)
  seed_blogs,              \* the seed list handed to run_discovery
  discovered_blogs,        \* state.discovered_blogs: domain -> BlogInfo
  processed_domains,       \* state.processed_domains
  failed_domains,          \* state.failed_domains
  failed_base_domains,     \* state.failed_base_domains
  queued_domains,          \* state.queued_domains
  state_blogs_to_process,  \* state.blogs_to_process, the copy that is dumped
  blogs_to_process,        \* self.blogs_to_process, the working deque
  file,                    \* the checkpoint file on disk
  cur,                     \* the (blog_url, source_info) crawl_blog is working on
  success,                 \* run_discovery's local: crawl_blog's result
  outcome,                 \* the branch crawl_blog left by (the line it logged)
  blogs_crawled_since_checkpoint,
  robots_cache,            \* validator.robots_cache: in the engine's
                           \* specifications the domains it holds, in the
                           \* Validator's own the dict domain -> rules
  domain_last_request,     \* fetcher.domain_last_request: in the engine's
                           \* specifications the domains it holds, in the
                           \* Fetcher's own the dict domain -> time
  io,                      \* what save_checkpoint did in the last step
  load_ok,                 \* the constructor's load_checkpoint validated a file
  restored,                \* records in discovered_blogs when the run started
  now,                     \* time.time(), in seconds
  ret,                     \* the last call of a Validator or Fetcher method
                           \* made on its own: arguments, answers, result
  robots_fetches,          \* the robots.txt responses the Validator got, per
                           \* domain, in order
  armed,                   \* the domains enforce_rate_limit was called for
                           \* with no request to them since
  visit                    \* crawl_blog's loop over the feed candidates of
                           \* one site, run on its own

state_vars == <<discovered_blogs, processed_domains, failed_domains,
                failed_base_domains, queued_domains>>

vars == <<pc, run, cfg, seed_blogs, discovered_blogs, processed_domains, failed_domains,
          failed_base_domains, queued_domains, state_blogs_to_process,
          blogs_to_process, file, cur, success, outcome,
          blogs_crawled_since_checkpoint, robots_cache, domain_last_request,
          io, load_ok, restored, now, ret, robots_fetches, armed, visit>>

\* what only the specifications of the parts use
unit_vars == <<now, ret, robots_fetches, armed, visit>>

\* what only the specifications of the engine use
engine_vars == <<pc, run, cfg, seed_blogs, discovered_blogs, processed_domains,
                 failed_domains, failed_base_domains, queued_domains,
                 state_blogs_to_process, blogs_to_process, file, cur, success,
                 outcome, blogs_crawled_since_checkpoint, io, load_ok, restored>>

Strategies == {"breadth_first", "depth_first", "random", "mixed"}

NoBlogs == [d \in {} |-> None]

Missing == [kind |-> "missing"]
Invalid == [kind |-> "invalid"]
Valid(data) == [kind |-> "valid", data |-> data]

\* what an engine can be constructed with: max_blogs, queue_strategy,
\* settings.CHECKPOINT_INTERVAL and whether load_from_checkpoint names a file.
\* The default strategy is run with every target and interval; the other
\* strategies, and an explicit checkpoint path, with the largest target and a
\* save after every blog.
Configs ==
  {c \in [max_blogs : 1..MaxTarget, queue_strategy : Strategies,
          checkpoint_interval : 1..MaxInterval, load_from_checkpoint : BOOLEAN] :
     /\ c.queue_strategy # "mixed" =>
          c.max_blogs = MaxTarget /\ c.checkpoint_interval = 1
     /\ c.load_from_checkpoint =>
          /\ c.queue_strategy = "mixed"
          /\ c.max_blogs = MaxTarget /\ c.checkpoint_interval = 1}

\* ------------------------------------------------------------ checkpoint
\* save_checkpoint without line 60: the state keeps the frontier it had
FrontierSnapshot_Stale == state_blogs_to_process

\* engine.py save_checkpoint 60:
\* self.state.blogs_to_process = list(self.blogs_to_process)
FrontierSnapshot == blogs_to_process

\* models.py DiscoveryState, as model_dump_json writes it: the sets become
\* arrays, the frontier an array of [url, source_info] pairs
model_dump_json ==
  [discovered_blogs |-> discovered_blogs,
   processed_domains |-> SetToList(processed_domains),
   failed_domains |-> SetToList(failed_domains),
   failed_base_domains |-> SetToList(failed_base_domains),
   queued_domains |-> SetToList(queued_domains),
   blogs_to_process |-> FrontierSnapshot]

\* the domains of the frontier items that have one (engine.py 104 and 318)
FrontierDomains(q) == {extract_domain(q[i][1]) : i \in 1..Len(q)} \ {<<>>}

\* engine.py load_checkpoint 97-104: DiscoveryState.model_validate, the
\* working deque, and the backward-compatibility rebuild of queued_domains
model_validate(data) ==
  LET queued == Range(data.queued_domains)
      q == data.blogs_to_process
  IN [discovered_blogs |-> data.discovered_blogs,
      processed_domains |-> Range(data.processed_domains),
      failed_domains |-> Range(data.failed_domains),
      failed_base_domains |-> Range(data.failed_base_domains),
      queued_domains |-> IF queued = {} /\ q # <<>>
                           THEN FrontierDomains(q) ELSE queued,
      blogs_to_process |-> q]

\* save_checkpoint without its try/except: the error leaves run_discovery
OnWriteFailure_Raises(next) == "crashed"

\* engine.py save_checkpoint 71-72: the write raised; the exception is
\* logged and the caller goes on where it would have after a good write
OnWriteFailure(next) == next

\* engine.py save_checkpoint, called where the caller leaves the state
\* alone: dump the state; a failed write leaves the old file or a torn one
save_checkpoint(next) ==
  /\ state_blogs_to_process' = FrontierSnapshot
  /\ \/ /\ file' = Valid(model_dump_json)
        /\ io' = "written"
        /\ pc' = next
     \/ /\ file' \in {file, Invalid}
        /\ io' = "failed"
        /\ pc' = OnWriteFailure(next)

no_checkpoint(next) ==
  /\ pc' = next
  /\ io' = "none"
  /\ UNCHANGED <<file, state_blogs_to_process>>

\* ------------------------------------------------------------------ init
\* the engine before its constructor ran
EngineIdle(seed_lists) ==
  /\ pc = "boot"
  /\ run = 0
  /\ cfg \in Configs
  /\ seed_blogs \in seed_lists
  /\ discovered_blogs = NoBlogs
  /\ processed_domains = {}
  /\ failed_domains = {}
  /\ failed_base_domains = {}
  /\ queued_domains = {}
  /\ state_blogs_to_process = <<>>
  /\ blogs_to_process = <<>>
  /\ file = Missing
  /\ cur = None
  /\ success = FALSE
  /\ outcome = "none"
  /\ blogs_crawled_since_checkpoint = 0
  /\ io = "none"
  /\ load_ok = FALSE
  /\ restored = 0

\* no part has been called on its own
UnitsIdle ==
  /\ now = 0
  /\ ret = [op |-> "none"]
  /\ robots_fetches = <<>>
  /\ armed = {}
  /\ visit = [at |-> "idle"]

StartWith(seed_lists) ==
  /\ EngineIdle(seed_lists)
  /\ robots_cache = {}
  /\ domain_last_request = {}
  /\ UnitsIdle

Init == StartWith(SeedLists)

\* models.py DiscoveryState(): every field at its default
EmptyState ==
  [discovered_blogs |-> NoBlogs, processed_domains |-> {},
   failed_domains |-> {}, failed_base_domains |-> {}, queued_domains |-> {},
   blogs_to_process |-> <<>>]

\* engine.py __init__ 54: the result of load_checkpoint is dropped
AfterLoad(explicit, loaded) == "constructed"

\* engine.py __init__ and load_checkpoint, in a fresh process: at the first
\* start, or after an earlier run ended or was interrupted. A start that
\* loads a checkpoint is a resume and counts towards MaxRuns; a start that
\* finds none begins again from the empty state.
Construct ==
  /\ UNCHANGED unit_vars
  /\ pc \in {"boot", "done", "interrupted"}
  /\ file.kind = "valid" => run < MaxRuns
  /\ run' = IF file.kind = "valid" THEN run + 1 ELSE 1
  /\ pc' = AfterLoad(cfg.load_from_checkpoint, file.kind = "valid")
  /\ LET st == IF file.kind = "valid" THEN model_validate(file.data)
               ELSE EmptyState
     IN /\ discovered_blogs' = st.discovered_blogs
        /\ processed_domains' = st.processed_domains
        /\ failed_domains' = st.failed_domains
        /\ failed_base_domains' = st.failed_base_domains
        /\ queued_domains' = st.queued_domains
        /\ state_blogs_to_process' = st.blogs_to_process
        /\ blogs_to_process' = st.blogs_to_process
        /\ restored' = Cardinality(DOMAIN st.discovered_blogs)
  /\ load_ok' = (file.kind = "valid")
  /\ cur' = None
  /\ success' = FALSE
  /\ outcome' = "none"
  /\ blogs_crawled_since_checkpoint' = 0
  /\ robots_cache' = {}
  /\ domain_last_request' = {}
  /\ io' = "none"
  /\ UNCHANGED <<cfg, seed_blogs, file>>

\* the seeding without its test: every seed is appended
SeedWanted_Always(blog_url) == TRUE

\* engine.py run_discovery 314-315: a seed of a processed domain is skipped
SeedWanted(blog_url) == extract_domain(blog_url) \notin processed_domains

\* engine.py run_discovery 313-321
Seed ==
  /\ UNCHANGED unit_vars
  /\ pc = "constructed"
  /\ LET fresh == SelectSeq(seed_blogs, SeedWanted)
         q == blogs_to_process \o [i \in 1..Len(fresh) |-> <<fresh[i], None>>]
     IN /\ blogs_to_process' = q
        /\ queued_domains' = FrontierDomains(q)
  /\ blogs_crawled_since_checkpoint' = 0
  /\ no_checkpoint("loop")
  /\ UNCHANGED <<run, cfg, seed_blogs, outcome, discovered_blogs, processed_domains, failed_domains,
                 failed_base_domains, cur, success, robots_cache,
                 domain_last_request, load_ok, restored>>

\* -------------------------------------------------------------- frontier
\* add_to_queue that always appends
add_to_queue_Back(q, blog_item, new_depth) == {Append(q, blog_item)}

\* add_to_queue that inserts anywhere
add_to_queue_Anywhere(q, blog_item, new_depth) ==
  {InsertAt(q, pos, blog_item) : pos \in 0..Len(q)}

\* engine.py add_to_queue: the queues one call can leave behind
add_to_queue(q, blog_item, new_depth) ==
  CASE cfg.queue_strategy = "breadth_first" -> {Append(q, blog_item)}
    [] cfg.queue_strategy = "depth_first" -> {<<blog_item>> \o q}
    [] cfg.queue_strategy = "random" ->
         IF Len(q) = 0 THEN {Append(q, blog_item)}
         ELSE {InsertAt(q, pos, blog_item) : pos \in 0..Len(q)}
    [] cfg.queue_strategy = "mixed" ->
         {Append(q, blog_item)} \cup
         (IF new_depth > 0 /\ Len(q) > 0
            THEN {InsertAt(q, pos, blog_item) :
                    pos \in 0..Max(1, Len(q) \div 2)}
            ELSE {})

\* the loop condition with <= for <
LoopCondition_OffByOne ==
  /\ blogs_to_process # <<>>
  /\ Cardinality(DOMAIN discovered_blogs) <= cfg.max_blogs

\* engine.py run_discovery 323: the loop condition
LoopCondition ==
  /\ blogs_to_process # <<>>
  /\ Cardinality(DOMAIN discovered_blogs) < cfg.max_blogs

\* engine.py run_discovery 324-335: pop the front item
Pop ==
  /\ UNCHANGED unit_vars
  /\ pc = "loop"
  /\ LoopCondition
  /\ cur' = Some(Head(blogs_to_process))
  /\ blogs_to_process' = Tail(blogs_to_process)
  /\ queued_domains' = queued_domains \ {extract_domain(Head(blogs_to_process)[1])}
  /\ outcome' = "none"
  /\ no_checkpoint("classify")
  /\ UNCHANGED <<run, cfg, seed_blogs, discovered_blogs, processed_domains, failed_domains,
                 failed_base_domains, success, blogs_crawled_since_checkpoint,
                 robots_cache, domain_last_request, load_ok, restored>>

\* engine.py run_discovery 359-368: the loop is over, the last checkpoint
Finish ==
  /\ UNCHANGED unit_vars
  /\ pc = "loop"
  /\ ~LoopCondition
  /\ save_checkpoint("done")
  /\ UNCHANGED <<run, cfg, seed_blogs, outcome, state_vars, blogs_to_process, cur, success,
                 blogs_crawled_since_checkpoint, robots_cache,
                 domain_last_request, load_ok, restored>>

\* ---------------------------------------------------------------- crawl
\* the gate without its blacklist test
IsBlacklisted_Never(base_domain) == FALSE

\* engine.py crawl_blog 155
IsBlacklisted(base_domain) == base_domain \in failed_base_domains

\* the gate without its already-processed test
AlreadyProcessed_Never(domain) == FALSE

\* engine.py crawl_blog 160
AlreadyProcessed(domain) == domain \in processed_domains

\* crawl_blog without line 164
MarkProcessed_Skip(domain) == processed_domains

\* engine.py crawl_blog 164: the domain is marked before any further work
MarkProcessed(domain) == processed_domains \cup {domain}

\* crawl_blog returns `result` to run_discovery, leaving by the branch `why`
Return(result, why) ==
  /\ success' = result
  /\ outcome' = why
  /\ cur' = None
  /\ no_checkpoint("after")

\* engine.py crawl_blog 147-169: the gate before any feed work
CrawlGate ==
  /\ UNCHANGED unit_vars
  /\ pc = "classify"
  /\ LET blog_url == cur[1][1]
         domain == extract_domain(blog_url)
         base_domain == get_base_domain(domain)
     IN IF domain = <<>>
          THEN /\ Return(FALSE, "no_domain")
               /\ UNCHANGED <<processed_domains, robots_cache>>
        ELSE IF IsBlacklisted(base_domain)
          THEN /\ processed_domains' = processed_domains \cup {domain}
               /\ Return(FALSE, "blacklisted")
               /\ UNCHANGED robots_cache
        ELSE IF AlreadyProcessed(domain)
          THEN /\ Return(FALSE, "already_processed")
               /\ UNCHANGED <<processed_domains, robots_cache>>
        ELSE /\ processed_domains' = MarkProcessed(domain)
             /\ robots_cache' = robots_cache \cup {domain}
             /\ \/ Return(FALSE, "robots_disallowed")
                \/ /\ no_checkpoint("feeds")         \* robots.txt allows
                   /\ UNCHANGED <<cur, success, outcome>>
  /\ UNCHANGED <<run, cfg, seed_blogs, discovered_blogs, failed_domains,
                 failed_base_domains, queued_domains, blogs_to_process,
                 blogs_crawled_since_checkpoint, domain_last_request, load_ok,
                 restored>>

\* urljoin(url, path) for the absolute paths of the feed candidates
urljoin(url, path) == Url(url.scheme, url.host, path)

\* the position of the first candidate fetch_feed gets posts from, or 0
FirstWorking(feed_urls, serving) ==
  IF \E i \in 1..Len(feed_urls) : feed_urls[i] \in serving
    THEN CHOOSE i \in 1..Len(feed_urls) :
           /\ feed_urls[i] \in serving
           /\ \A j \in 1..(i - 1) : feed_urls[j] \notin serving
    ELSE 0

\* the escalation without the subdomain test
BlacklistDeadSite_Always(domain, base_domain) == {base_domain}

\* engine.py crawl_blog 182-198: what an unreachable site, or one without
\* blog indicators, adds to failed_base_domains
BlacklistDeadSite(domain, base_domain) ==
  IF domain = base_domain THEN {base_domain} ELSE {}

\* crawl_blog without lines 298-300
BlacklistFeedless_Never(base_domain) == {}

\* engine.py crawl_blog 296-302: what a site none of whose feeds has posts
\* adds to failed_base_domains
BlacklistFeedless(base_domain) ==
  IF base_domain \in BLACKLIST_BASE_DOMAIN_SITES THEN {base_domain} ELSE {}

\* the record's depth without the parent's depth
blog_depth_Flat(source_info) == 0

\* engine.py crawl_blog 221-229: blog_depth
blog_depth(source_info) ==
  IF source_info # None THEN source_info[1].parent_depth + 1 ELSE 0

\* engine.py crawl_blog 220-246: the record of a discovered blog.  BlogInfo
\* validates the discovery_source dict into models.py DiscoveredFrom, which
\* has the fields source_blog, source_blog_name and post_link.
BlogInfo(blog_url, feed_url, latest_post, source_info) ==
  [url |-> blog_url,
   name |-> latest_post.blog_name,
   feed_url |-> feed_url,
   latest_post |-> [title |-> latest_post.title, link |-> latest_post.link,
                    published |-> latest_post.published_timestamp],
   depth |-> blog_depth(source_info),
   discovered_from |->
     IF source_info # None
       THEN Some([source_blog |-> source_info[1].source_blog,
                  source_blog_name |-> source_info[1].source_blog_name,
                  post_link |-> None])
       ELSE None]

\* engine.py crawl_blog 258-271: link -> the source of its first sighting,
\* in the order of the sightings, as a sequence of <<link, source_info>>
RECURSIVE new_blogs_with_source(_, _, _, _)
new_blogs_with_source(posts, blog_url, blog_name, seen) ==
  IF posts = <<>> THEN seen
  ELSE LET post == Head(posts)
           known == {seen[i][1] : i \in 1..Len(seen)}
           blog_links == extract_blog_links(post.raw_html_content, post.link)
           first == SelectSeq(blog_links, LAMBDA l : l \notin known)
           more == [i \in 1..Len(first) |->
                      <<first[i], [source_blog |-> blog_url,
                                   source_blog_name |-> blog_name,
                                   source_post_title |-> post.title,
                                   source_post_link |-> post.link]>>]
       IN new_blogs_with_source(Tail(posts), blog_url, blog_name, seen \o more)

\* the test without its memory: every link with a domain is enqueued
IsNewDomain_Always(new_domain, queued) == new_domain # <<>>

\* engine.py crawl_blog 278: the link's domain is neither processed nor
\* pending
IsNewDomain(new_domain, queued) ==
  /\ new_domain # <<>>
  /\ new_domain \notin processed_domains
  /\ new_domain \notin queued

\* engine.py crawl_blog 276-283: the <<frontier, queued_domains>> pairs the
\* loop over the new links can end with
RECURSIVE Enqueue(_, _, _, _)
Enqueue(news, q, queued, current_depth) ==
  IF news = <<>> THEN {<<q, queued>>}
  ELSE LET new_blog_url == Head(news)[1]
           new_domain == extract_domain(new_blog_url)
           source_info == [source_blog |-> Head(news)[2].source_blog,
                           source_blog_name |-> Head(news)[2].source_blog_name,
                           source_post_title |-> Head(news)[2].source_post_title,
                           source_post_link |-> Head(news)[2].source_post_link,
                           parent_depth |-> current_depth]
       IN IF IsNewDomain(new_domain, queued)
            THEN UNION {Enqueue(Tail(news), q2, queued \cup {new_domain},
                                current_depth) :
                          q2 \in add_to_queue(q, <<new_blog_url, Some(source_info)>>,
                                              current_depth + 1)}
            ELSE Enqueue(Tail(news), q, queued, current_depth)

\* engine.py crawl_blog 212-294: the feed at position `working` gave `posts`
Discovered(blog_url, source_info, domain, feed_url, posts) ==
  LET fetched == [i \in 1..Len(posts) |->
                    [title |-> posts[i].title,
                     link |-> posts[i].link,
                     published_timestamp |-> posts[i].published_timestamp,
                     raw_html_content |-> posts[i].raw_html_content,
                     blog_name |-> blog_url.host]]
      latest_post == LatestPost(fetched)
      blog_info == BlogInfo(blog_url, feed_url, latest_post, source_info)
      news == new_blogs_with_source(fetched, blog_url, latest_post.blog_name, <<>>)
  IN /\ discovered_blogs' =
          [d \in DOMAIN discovered_blogs \cup {domain} |->
             IF d = domain THEN blog_info ELSE discovered_blogs[d]]
     /\ \E res \in Enqueue(news, blogs_to_process, queued_domains, blog_info.depth) :
          /\ blogs_to_process' = res[1]
          /\ queued_domains' = res[2]
     /\ Return(TRUE, "discovered")
     /\ UNCHANGED <<failed_domains, failed_base_domains>>

\* engine.py crawl_blog 176-302: feed discovery, the feeds in turn, the
\* record and the new links; `page`, `serving` and `posts` are what the
\* site answers
CrawlFeeds ==
  /\ UNCHANGED unit_vars
  /\ pc = "feeds"
  /\ \E page \in Pages :
       LET blog_url == cur[1][1]
           source_info == cur[1][2]
           domain == extract_domain(blog_url)
           base_domain == get_base_domain(domain)
           found == discover_feeds(page)
           feed_urls == found[1]
           status == found[2]
       IN IF status \in {"unreachable", "no_blog_indicators"}
            THEN /\ failed_domains' = failed_domains \cup {domain}
                 /\ failed_base_domains' =
                      failed_base_domains \cup BlacklistDeadSite(domain, base_domain)
                 /\ Return(FALSE, status)
                 /\ UNCHANGED <<discovered_blogs, queued_domains, blogs_to_process>>
          ELSE IF feed_urls = <<>>
            THEN /\ failed_domains' = failed_domains \cup {domain}
                 /\ Return(FALSE, "no_feeds")
                 /\ UNCHANGED <<discovered_blogs, failed_base_domains,
                                queued_domains, blogs_to_process>>
          ELSE \E serving \in SUBSET ServedPaths :
                 LET working == FirstWorking(feed_urls, serving)
                 IN IF working = 0
                      THEN /\ failed_domains' = failed_domains \cup {domain}
                           /\ failed_base_domains' =
                                failed_base_domains \cup BlacklistFeedless(base_domain)
                           /\ Return(FALSE, "feeds_failed")
                           /\ UNCHANGED <<discovered_blogs, queued_domains,
                                          blogs_to_process>>
                      ELSE \E posts \in SitePosts(blog_url) :
                             Discovered(blog_url, source_info, domain,
                                        urljoin(blog_url, feed_urls[working]), posts)
  /\ domain_last_request' = domain_last_request \cup {extract_domain(cur[1][1])}
  /\ UNCHANGED <<run, cfg, seed_blogs, processed_domains,
                 blogs_crawled_since_checkpoint, robots_cache, load_ok, restored>>

\* run_discovery without its `except Exception`: the error leaves the loop
OnItemException_Propagates(next) == "crashed"

\* engine.py run_discovery 352-354: the exception is logged, `continue`
OnItemException(next) == next

\* engine.py crawl_blog 231-246 raising (the record does not validate), caught
\* at run_discovery 352-354: the item is dropped, the loop goes on
CrawlRaises ==
  /\ UNCHANGED unit_vars
  /\ pc = "feeds"
  /\ cur' = None
  /\ outcome' = "raised"
  /\ domain_last_request' = domain_last_request \cup {extract_domain(cur[1][1])}
  /\ no_checkpoint(OnItemException("loop"))
  /\ UNCHANGED <<run, cfg, seed_blogs, state_vars, blogs_to_process, success,
                 blogs_crawled_since_checkpoint, robots_cache, load_ok, restored>>

\* the cadence test with > for >=
CheckpointDue_Late(count) == count > cfg.checkpoint_interval

\* engine.py run_discovery 342: the cadence test
CheckpointDue(count) == count >= cfg.checkpoint_interval

\* engine.py run_discovery 340-346 and 356-357: the checkpoint cadence and
\* the politeness delay after crawl_blog returned
AfterCrawl ==
  /\ UNCHANGED unit_vars
  /\ pc = "after"
  /\ IF success /\ CheckpointDue(blogs_crawled_since_checkpoint + 1)
       THEN /\ save_checkpoint("loop")
            /\ blogs_crawled_since_checkpoint' = 0
       ELSE /\ no_checkpoint("loop")
            /\ blogs_crawled_since_checkpoint' =
                 IF success THEN blogs_crawled_since_checkpoint + 1
                 ELSE blogs_crawled_since_checkpoint
  /\ outcome' = "none"
  /\ UNCHANGED <<run, cfg, seed_blogs, state_vars, blogs_to_process, cur, success,
                 robots_cache, domain_last_request, load_ok, restored>>

\* engine.py run_discovery 348-351: KeyboardInterrupt inside the try block
\* (in crawl_blog, in the periodic save, in the sleep): save, then re-raise
InterruptInTry ==
  /\ UNCHANGED unit_vars
  /\ pc \in {"classify", "feeds", "after"}
  /\ save_checkpoint("interrupted")
  /\ UNCHANGED <<run, cfg, seed_blogs, outcome, state_vars, blogs_to_process, cur, success,
                 blogs_crawled_since_checkpoint, robots_cache,
                 domain_last_request, load_ok, restored>>

\* engine.py run_discovery 323-335 and 356-357: KeyboardInterrupt in the part
\* of the loop body that no try block covers; it leaves run_discovery at once
InterruptOutsideTry ==
  /\ UNCHANGED unit_vars
  /\ pc = "loop"
  /\ no_checkpoint("interrupted")
  /\ UNCHANGED <<run, cfg, seed_blogs, outcome, state_vars, blogs_to_process, cur, success,
                 blogs_crawled_since_checkpoint, robots_cache,
                 domain_last_request, load_ok, restored>>

Next ==
  \/ Construct
  \/ Seed
  \/ Pop
  \/ Finish
  \/ CrawlGate
  \/ CrawlFeeds
  \/ CrawlRaises
  \/ AfterCrawl
  \/ InterruptInTry
  \/ InterruptOutsideTry

Spec == Init /\ [][Next]_vars

\* the engine run on the seeds of the end-to-end scenario
InitEndToEnd == StartWith(EndToEndSeedLists)

SpecEndToEnd == InitEndToEnd /\ [][Next]_vars

\* the engine run on seeds that are hosted on platforms
InitPlatform == StartWith(PlatformSeedLists)

SpecPlatform == InitPlatform /\ [][Next]_vars

\* ---------------------------------------------------------------- claims
DomainOf(item) == extract_domain(item[1])

Running == pc \in {"loop", "classify", "feeds", "after"}

\* C1: while an engine instance runs, a record of discovered_blogs, once
\* present, is never overwritten, changed or removed, however many frontier
\* items lead to its domain.
C1_RecordAssignedOnce ==
  [][pc' # "constructed" =>
       \A d \in DOMAIN discovered_blogs :
         /\ d \in DOMAIN discovered_blogs'
         /\ discovered_blogs'[d] = discovered_blogs[d]]_vars

\* C1 witness: both seeds of the domain a.com were popped, the second one
\* after the record existed, and the record is the one of the first.
C1_Witness ==
  /\ seed_blogs = <<SeedA, SeedWwwA>>
  /\ pc = "after"
  /\ outcome = "already_processed"
  /\ blogs_to_process = <<>>
  /\ HostA \in DOMAIN discovered_blogs
  /\ discovered_blogs[HostA].url = SeedA

\* C2 (as claimed): no two pending frontier items have the same canonical
\* domain.
C2_NoDuplicatePending ==
  \A i, j \in 1..Len(blogs_to_process) :
    (i # j /\ DomainOf(blogs_to_process[i]) # <<>>)
      => DomainOf(blogs_to_process[i]) # DomainOf(blogs_to_process[j])

\* C3: a run that starts below its target never holds more than `target`
\* records, and once the count has reached the target the loop pops nothing
\* more: it leaves the frontier as it is and ends.
C3_BudgetStopsLoop ==
  [][/\ (pc' \in {"loop", "classify", "feeds", "after", "done", "interrupted"}
           /\ restored' < cfg'.max_blogs)
        => Cardinality(DOMAIN discovered_blogs') <= cfg'.max_blogs
     /\ (pc = "loop" /\ Cardinality(DOMAIN discovered_blogs) >= cfg.max_blogs)
        => /\ pc' \in {"done", "interrupted"}
           /\ blogs_to_process' = blogs_to_process]_vars

\* C3 witness: the run ended with the target reached and items still pending.
C3_Witness ==
  /\ pc = "done"
  /\ restored < cfg.max_blogs
  /\ Cardinality(DOMAIN discovered_blogs) = cfg.max_blogs
  /\ blogs_to_process # <<>>

\* C4 (as claimed): a checkpoint that was just written, loaded into a fresh
\* engine, gives the same discovered_blogs keys, the same members of the
\* four domain sets and the same frontier in the same order.
C4_RoundTrip ==
  io = "written" =>
    LET st == model_validate(file.data)
    IN /\ DOMAIN st.discovered_blogs = DOMAIN discovered_blogs
       /\ st.processed_domains = processed_domains
       /\ st.failed_domains = failed_domains
       /\ st.failed_base_domains = failed_base_domains
       /\ st.queued_domains = queued_domains
       /\ st.blogs_to_process = blogs_to_process

\* C5: when feed discovery answers unreachable or no_blog_indicators for the
\* popped domain d, d joins failed_domains, and failed_base_domains gains
\* base_domain(d) exactly when d is its own base domain; for a subdomain it
\* gains nothing.
C5_BlacklistAsymmetry ==
  [][(pc = "feeds" /\ outcome' \in {"unreachable", "no_blog_indicators"}) =>
       LET d == DomainOf(cur[1])
       IN /\ d \in failed_domains'
          /\ (get_base_domain(d) \in failed_base_domains') <=> (d = get_base_domain(d))
          /\ failed_base_domains' =
               IF d = get_base_domain(d)
                 THEN failed_base_domains \cup {d} ELSE failed_base_domains]_vars

\* C5 witness: the subdomain blog.b.org was found unreachable and b.org is
\* not blacklisted.
C5_Witness ==
  /\ pc = "after"
  /\ outcome = "unreachable"
  /\ HostSub \in failed_domains
  /\ HostB \notin failed_base_domains
  /\ HostB \notin processed_domains

\* C6: a popped item whose base domain is blacklisted is marked processed
\* and skipped without a robots check, a feed discovery or a feed fetch, and
\* no domain is added to discovered_blogs while its base is blacklisted.
C6_BlacklistedBaseSkipped ==
  [][/\ (pc = "classify" /\ pc' # "interrupted" /\ DomainOf(cur[1]) # <<>>
           /\ get_base_domain(DomainOf(cur[1])) \in failed_base_domains)
        => /\ pc' = "after"
           /\ outcome' = "blacklisted"
           /\ DomainOf(cur[1]) \in processed_domains'
           /\ robots_cache' = robots_cache
           /\ domain_last_request' = domain_last_request
           /\ discovered_blogs' = discovered_blogs
     /\ pc' # "constructed"
        => /\ failed_base_domains \subseteq failed_base_domains'
           /\ \A d \in DOMAIN discovered_blogs' \ DOMAIN discovered_blogs :
                get_base_domain(d) \notin failed_base_domains]_vars

\* C6 witness: blog.b.org was popped after b.org had been blacklisted, and
\* was skipped.
C6_Witness ==
  /\ pc = "after"
  /\ outcome = "blacklisted"
  /\ HostB \in failed_base_domains
  /\ HostSub \in processed_domains
  /\ HostSub \notin robots_cache

\* C7 (as claimed): an interrupt never leaves run_discovery without
\* save_checkpoint having been called on the way out.
C7_InterruptAlwaysSaves ==
  pc = "interrupted" => io \in {"written", "failed"}

\* C8 (as claimed): an interrupt leaves run_discovery only between items:
\* no crawl_blog call is cut short by it.
C8_InterruptBetweenItems ==
  pc = "interrupted" => cur = None

\* C9 (as claimed): with an explicit checkpoint path whose file does not
\* load, no engine comes up and no run proceeds; without an explicit path a
\* file that does not load gives an engine with the empty state.
C9_ExplicitLoadFailureIsFatal ==
  /\ (cfg.load_from_checkpoint /\ ~load_ok) => pc = "boot"
  /\ (~cfg.load_from_checkpoint /\ ~load_ok /\ pc = "constructed")
       => /\ discovered_blogs = NoBlogs
          /\ processed_domains = {} /\ failed_domains = {}
          /\ failed_base_domains = {} /\ queued_domains = {}
          /\ blogs_to_process = <<>>

\* C10: a checkpoint write that fails changes neither discovered_blogs nor
\* the domain sets nor the frontier, and control goes where it would have
\* gone after a good write: back to the loop after a periodic checkpoint.
C10_WriteFailureTolerated ==
  [][io' = "failed" =>
       /\ state_vars' = state_vars
       /\ blogs_to_process' = blogs_to_process
       /\ pc' \in {"loop", "done", "interrupted"}
       /\ (pc = "after" /\ pc' # "interrupted") => pc' = "loop"
       /\ (pc = "loop") => pc' = "done"]_vars

\* C10 witness: a periodic checkpoint write failed and the loop is about to
\* pop the next item.
C10_Witness ==
  /\ pc = "loop"
  /\ io = "failed"
  /\ LoopCondition

\* C11: an exception raised while a popped item is classified is caught by
\* run_discovery: the loop goes on with the next item, the pending frontier
\* and the recorded state are left as they were.
C11_ItemExceptionSkipped ==
  [][(pc = "feeds" /\ outcome' = "raised") =>
       /\ pc' = "loop"
       /\ cur' = None
       /\ blogs_to_process' = blogs_to_process
       /\ UNCHANGED state_vars]_vars

\* C11 witness: in this run the feed stage of one domain ended neither in a
\* record nor in a failure (it raised), and a later item has been recorded.
C11_Witness ==
  /\ pc = "after"
  /\ outcome = "discovered"
  /\ \E d \in domain_last_request :
       d \notin DOMAIN discovered_blogs /\ d \notin failed_domains

\* C12: every domain that has a record in discovered_blogs is in
\* processed_domains.
C12_DiscoveredAreProcessed ==
  DOMAIN discovered_blogs \subseteq processed_domains

\* C12 witness: a record has just been inserted.
C12_Witness ==
  /\ pc = "after"
  /\ outcome = "discovered"
  /\ discovered_blogs # NoBlogs

\* the record of the blog an item names as its source, if there is one
ParentOf(source_blog) == extract_domain(source_blog)

\* records and pending items agree with the records of their sources
DepthConsistent ==
  /\ \A d \in DOMAIN discovered_blogs :
       LET r == discovered_blogs[d]
       IN IF r.discovered_from = None THEN r.depth = 0
          ELSE LET p == ParentOf(r.discovered_from[1].source_blog)
               IN /\ p \in DOMAIN discovered_blogs
                  /\ r.depth = discovered_blogs[p].depth + 1
  /\ \A i \in 1..Len(blogs_to_process) :
       LET source_info == blogs_to_process[i][2]
       IN source_info # None =>
            LET p == ParentOf(source_info[1].source_blog)
            IN /\ p \in DOMAIN discovered_blogs
               /\ source_info[1].parent_depth = discovered_blogs[p].depth

\* C13: a record made from a seed item has depth 0, a record made from an
\* item found in a post of blog P has P's recorded depth + 1 (also when the
\* item went through a checkpoint), and a record's depth never changes.
C13_DepthFrozen ==
  /\ []DepthConsistent
  /\ [][\A d \in DOMAIN discovered_blogs \cap DOMAIN discovered_blogs' :
          discovered_blogs'[d].depth = discovered_blogs[d].depth]_vars

\* C13 witness: a resumed run has made its first record, of depth 1, from an
\* item with provenance that was in the frontier of the checkpoint it loaded.
C13_Witness ==
  /\ run = 2
  /\ pc = "after"
  /\ outcome = "discovered"
  /\ file.kind = "valid"
  /\ Cardinality(DOMAIN file.data.discovered_blogs) = restored
  /\ Cardinality(DOMAIN discovered_blogs) = restored + 1
  /\ \E d \in DOMAIN discovered_blogs \ DOMAIN file.data.discovered_blogs :
       /\ discovered_blogs[d].depth = 1
       /\ \E i \in 1..Len(file.data.blogs_to_process) :
            /\ extract_domain(file.data.blogs_to_process[i][1]) = d
            /\ file.data.blogs_to_process[i][2] # None

\* a fresh run has handled its only seed, and nothing else, and recorded it
FirstPassDone(seed) ==
  /\ seed_blogs = <<seed>>
  /\ run = 1
  /\ pc = "after"
  /\ outcome = "discovered"
  /\ processed_domains = {extract_domain(seed)}

\* the frontier is one item, of domain `domain`, to be given depth 1, found
\* in a post of `seed`
OneNewItem(seed, domain) ==
  /\ Len(blogs_to_process) = 1
  /\ extract_domain(blogs_to_process[1][1]) = domain
  /\ blogs_to_process[1][2] # None
  /\ blogs_to_process[1][2][1].parent_depth + 1 = 1
  /\ blogs_to_process[1][2][1].source_blog = seed

\* C14 as stated: seed https://a.example/, a working feed of two posts, one
\* with an anchor to https://b.example/post1: after one pass discovered_blogs
\* has the one key a.example and the frontier one new item, for b.example,
\* of depth 1, with source_blog https://a.example/.
C14_EndToEnd_AsStated ==
  FirstPassDone(SeedAExample) =>
    /\ DOMAIN discovered_blogs = {HostAExample}
    /\ OneNewItem(SeedAExample, HostBExample)

\* C14 amended: under the shipped ALLOWED_EXTENSIONS the anchor to b.example
\* is not a link candidate, so after the pass discovered_blogs has the one
\* key a.example and the frontier is empty; with the same scenario under an
\* allowed top-level domain (a.net, b.net) the frontier holds the one new
\* item, for b.net, of depth 1, with source_blog https://a.net/.
C14_EndToEnd ==
  /\ FirstPassDone(SeedAExample) =>
       /\ DOMAIN discovered_blogs = {HostAExample}
       /\ blogs_to_process = <<>>
  /\ FirstPassDone(SeedANet) =>
       /\ DOMAIN discovered_blogs = {HostANet}
       /\ OneNewItem(SeedANet, HostBNet)

\* C14 witness: the pass over https://a.example/ has ended in a record.
C14_Witness == FirstPassDone(SeedAExample)

\* ================================================= the loop over the feeds
\* The specifications below run one part of the crawler on its own, with the
\* engine left where it was constructed.
NoEngine ==
  /\ EngineIdle({<<>>})
  /\ cfg = [max_blogs |-> 1, queue_strategy |-> "mixed",
            checkpoint_interval |-> 1, load_from_checkpoint |-> FALSE]

\* a function is about to be called on its own with the arguments `args`
Calling(args) ==
  /\ NoEngine
  /\ robots_cache = {}
  /\ domain_last_request = {}
  /\ now = 0
  /\ ret \in {[op |-> "call", args |-> a] : a \in args}
  /\ robots_fetches = <<>>
  /\ armed = {}
  /\ visit = [at |-> "idle"]

VisitUrls == {SeedA, SeedWwwA, SeedSub}

\* engine.py crawl_blog 215: `if posts:`, without the test
FoundWorking_Never(posts) == FALSE

\* engine.py crawl_blog 215: `if posts:`
FoundWorking(posts) == posts # <<>>

\* engine.py crawl_blog 177-208: discover_feeds and the branches that return
\* before any feed is tried
StartVisit ==
  /\ visit.at \in {"idle", "return"}
  /\ \E blog_url \in VisitUrls, page \in Pages :
       LET found == discover_feeds(page)
           feed_urls == [k \in 1..Len(found[1]) |-> urljoin(blog_url, found[1][k])]
       IN visit' = [at |-> IF feed_urls = <<>> THEN "return" ELSE "loop",
                    blog_url |-> blog_url, feed_urls |-> feed_urls, i |-> 1,
                    calls |-> <<>>, answers |-> <<>>, feed_url |-> None]
  /\ UNCHANGED <<engine_vars, robots_cache, domain_last_request, now, ret,
                 robots_fetches, armed>>

\* engine.py crawl_blog 211-248, 294-296: one pass of
\* `for i, feed_url in enumerate(feed_urls, 1)`; `posts` is what fetch_feed
\* returns, [] after any failure
FetchNextFeed ==
  /\ visit.at = "loop"
  /\ \E posts \in {<<>>} \cup FeedPosts :
       LET feed_url == visit.feed_urls[visit.i]
           called == [visit EXCEPT !.calls = Append(@, feed_url),
                                   !.answers = Append(@, posts # <<>>)]
       IN visit' =
            IF FoundWorking(posts)
              THEN [called EXCEPT !.at = "return", !.feed_url = Some(feed_url)]
            ELSE IF visit.i < Len(visit.feed_urls)
              THEN [called EXCEPT !.i = @ + 1]
            ELSE [called EXCEPT !.at = "return"]
  /\ UNCHANGED <<engine_vars, robots_cache, domain_last_request, now, ret,
                 robots_fetches, armed>>

InitFeedLoop ==
  /\ NoEngine
  /\ robots_cache = {}
  /\ domain_last_request = {}
  /\ UnitsIdle

NextFeedLoop ==
  \/ StartVisit
  \/ FetchNextFeed

SpecFeedLoop == InitFeedLoop /\ [][NextFeedLoop]_vars

\* C15: the feed candidates of a site are fetched in the order of the list
\* discover_feeds returned, each at most once per pass, and none is fetched
\* after the first that yields posts: at every moment the fetches made are a
\* prefix of the list in which only the last can have yielded posts, and the
\* loop ends either with feed_url the first candidate that yielded posts or,
\* after the whole list failed, with none; that candidate is the one
\* CrawlFeeds records (FirstWorking).
C15_FirstWorkingFeed ==
  visit.at \in {"loop", "return"} =>
    LET n == Len(visit.calls)
    IN /\ n <= Len(visit.feed_urls)
       /\ visit.calls = SubSeq(visit.feed_urls, 1, n)
       /\ Len(visit.answers) = n
       /\ \A k \in 1..(n - 1) : ~visit.answers[k]
       /\ visit.at = "loop" => visit.i = n + 1 /\ (n > 0 => ~visit.answers[n])
       /\ visit.at = "return" /\ visit.feed_url # None =>
            n > 0 /\ visit.answers[n] /\ visit.feed_url = Some(visit.feed_urls[n])
       /\ visit.at = "return" /\ visit.feed_url = None =>
            n = Len(visit.feed_urls) /\ (n > 0 => ~visit.answers[n])
       /\ visit.at = "return" =>
            LET serving == {visit.calls[k] : k \in {j \in 1..n : visit.answers[j]}}
            IN FirstWorking(visit.feed_urls, serving) =
                 IF visit.feed_url # None THEN n ELSE 0

\* the third candidate was the first to yield posts and the loop stopped there
C15_Witness ==
  /\ visit.at = "return"
  /\ visit.feed_url # None
  /\ Len(visit.calls) = 3
  /\ Len(visit.feed_urls) > 3
  /\ visit.feed_url = Some(visit.feed_urls[3])

\* ======================================================= the Fetcher alone
\* crawler/network.py Fetcher.__init__ 37
min_delay_between_requests == 2

\* d[k] = v
Put(d, k, v) == [x \in DOMAIN d \cup {k} |-> IF x = k THEN v ELSE d[x]]

\* crawler/network.py enforce_rate_limit 47, without the test
NeedsWait_Never(elapsed) == FALSE

\* crawler/network.py enforce_rate_limit 47:
\* `if elapsed < self.min_delay_between_requests`
NeedsWait(elapsed) == elapsed < min_delay_between_requests

\* crawler/network.py enforce_rate_limit, entered at time t with the dict
\* `last`: the time.sleep calls it makes, the time it returns at and the dict
\* it leaves. `late` is the time that passes in the call beyond the sleep
\* (time.sleep may return late; it never returns early). The clock is taken
\* to be monotone.
enforce_rate_limit(last, t, domain, late) ==
  IF domain = <<>>
    THEN [domain_last_request |-> last, now |-> t, sleeps |-> <<>>]
  ELSE LET current_time == t
           sleeps == IF domain \in DOMAIN last
                       THEN LET elapsed == current_time - last[domain]
                            IN IF NeedsWait(elapsed)
                                 THEN <<min_delay_between_requests - elapsed>>
                                 ELSE <<>>
                       ELSE <<>>
           woke == current_time + (IF sleeps = <<>> THEN 0 ELSE sleeps[1]) + late
       IN [domain_last_request |-> Put(last, domain, woke), now |-> woke,
           sleeps |-> sleeps]

\* the requests.get calls one method makes to one host, in order, each with
\* whether enforce_rate_limit was called for the host's domain since the
\* request before it: `arm` holds the domains it was called for
Requests(arm, domain, paths) ==
  [k \in 1..Len(paths) |->
     [path |-> paths[k], domain |-> domain,
      limited |-> k = 1 /\ domain \in arm]]

FetcherUrls == {SeedA, SeedWwwA, SeedSub}

\* the sites the Fetcher is pointed at: those of Pages, every way the root
\* fetch fails, and sites with sitemaps
FetcherPages ==
  Pages \cup
  {[fetch |-> exc, parses |-> TRUE, link_feeds |-> <<>>, sitemap |-> NoSitemap] :
     exc \in {"ConnectionError", "HTTPError", "TooManyRedirects"}} \cup
  {[fetch |-> "ok", parses |-> TRUE, link_feeds |-> <<"/index.xml">>,
    sitemap |-> sm] :
     sm \in {[named |-> <<>>, feeds_at |-> 2, feeds |-> <<"/news/feed">>],
             [named |-> <<"/sm.xml">>, feeds_at |-> 0, feeds |-> <<>>],
             [named |-> <<"/sm.xml">>, feeds_at |-> 1, feeds |-> <<"/atom.xml">>]}}

\* what a feed URL can answer fetch_feed
FeedAnswers ==
  {[fetch |-> "Timeout", status_code |-> 0, posts |-> <<>>],
   [fetch |-> "ok", status_code |-> 404, posts |-> <<>>],
   [fetch |-> "ok", status_code |-> 200, posts |-> <<>>]} \cup
  {[fetch |-> "ok", status_code |-> 200, posts |-> posts] : posts \in FeedPosts}

\* crawler/network.py fetch_feed 236-304: the posts, [] for a failed request,
\* a status other than 200 or a feed without entries
fetch_feed(answer) ==
  IF answer.fetch # "ok" \/ answer.status_code # 200 THEN <<>> ELSE answer.posts

\* time passes between calls
Tick ==
  /\ now < MaxNow
  /\ now' = now + 1
  /\ UNCHANGED <<engine_vars, robots_cache, domain_last_request, ret,
                 robots_fetches, armed, visit>>

\* crawler/network.py enforce_rate_limit 39-53, called on its own
EnforceRateLimit ==
  /\ \E domain \in {extract_domain(url) : url \in FetcherUrls} \cup {<<>>},
        late \in 0..1 :
       LET lim == enforce_rate_limit(domain_last_request, now, domain, late)
       IN /\ domain = <<>> => late = 0
          /\ lim.now <= MaxNow
          /\ now' = lim.now
          /\ domain_last_request' = lim.domain_last_request
          /\ armed' = IF domain = <<>> THEN armed ELSE armed \cup {domain}
          /\ ret' = [op |-> "enforce_rate_limit", domain |-> domain,
                     before |-> domain_last_request, current_time |-> now,
                     sleeps |-> lim.sleeps, returned_at |-> lim.now]
  /\ UNCHANGED <<engine_vars, robots_cache, robots_fetches, visit>>

\* crawler/network.py discover_feeds 106-232 with check_sitemap 55-104
DiscoverFeeds ==
  /\ \E url \in FetcherUrls, page \in FetcherPages, late \in 0..1 :
       LET domain == extract_domain(url)
           lim == enforce_rate_limit(domain_last_request, now, domain, late)
           probes == IF page.fetch = "ok" /\ page.parses
                       THEN check_sitemap(page).requested ELSE <<>>
       IN /\ lim.now <= MaxNow
          /\ now' = lim.now
          /\ domain_last_request' = lim.domain_last_request
          /\ armed' = armed \ {domain}
          /\ ret' = [op |-> "discover_feeds", url |-> url, page |-> page,
                     result |-> discover_feeds(page),
                     requests |-> Requests(armed \cup {domain}, domain,
                                           <<url.path>> \o probes)]
  /\ UNCHANGED <<engine_vars, robots_cache, robots_fetches, visit>>

\* crawler/network.py fetch_feed 234-304
FetchFeed ==
  /\ \E url \in FetcherUrls, feed_path \in ServedPaths, answer \in FeedAnswers,
        late \in 0..1 :
       LET feed_url == urljoin(url, feed_path)
           domain == extract_domain(feed_url)
           lim == enforce_rate_limit(domain_last_request, now, domain, late)
       IN /\ lim.now <= MaxNow
          /\ now' = lim.now
          /\ domain_last_request' = lim.domain_last_request
          /\ armed' = armed \ {domain}
          /\ ret' = [op |-> "fetch_feed", url |-> feed_url,
                     result |-> fetch_feed(answer),
                     requests |-> Requests(armed \cup {domain}, domain,
                                           <<feed_path>>)]
  /\ UNCHANGED <<engine_vars, robots_cache, robots_fetches, visit>>

InitFetcher ==
  /\ NoEngine
  /\ robots_cache = {}
  /\ domain_last_request = <<>>
  /\ UnitsIdle

NextFetcher ==
  \/ Tick
  \/ EnforceRateLimit
  \/ DiscoverFeeds
  \/ FetchFeed

SpecFetcher == InitFetcher /\ [][NextFetcher]_vars

\* C16: every outbound HTTP request (the root page, robots.txt and the
\* sitemaps of the sitemap probe, a feed, the gatekeeper's robots.txt) is
\* preceded by an enforce_rate_limit call for the domain of its target, with
\* no other request to that domain in between.
C16_EveryRequestRateLimited ==
  ret.op \in {"discover_feeds", "fetch_feed", "is_allowed_by_robots"} =>
    \A k \in 1..Len(ret.requests) : ret.requests[k].limited

\* C17: in any sequence of enforce_rate_limit calls with a non-empty domain,
\* the first call for a domain does not sleep; a call made less than
\* min_delay_between_requests after the domain's recorded time sleeps exactly
\* once, for the remaining time t, 0 < t <= min_delay_between_requests; every
\* call records the time it returns at as the domain's last-request time, so
\* that two successive recorded times of a domain are at least
\* min_delay_between_requests apart; the entries of the other domains are
\* left as they were.
C17_RateLimit ==
  ret.op = "enforce_rate_limit" /\ ret.domain # <<>> =>
    LET d == ret.domain
        first == d \notin DOMAIN ret.before
    IN /\ first => ret.sleeps = <<>>
       /\ ~first /\ ret.current_time - ret.before[d] < min_delay_between_requests =>
            /\ Len(ret.sleeps) = 1
            /\ ret.sleeps[1] =
                 min_delay_between_requests - (ret.current_time - ret.before[d])
            /\ 0 < ret.sleeps[1]
            /\ ret.sleeps[1] <= min_delay_between_requests
       /\ d \in DOMAIN domain_last_request
       /\ domain_last_request[d] = ret.returned_at
       /\ ret.returned_at >= ret.current_time
       /\ ~first => domain_last_request[d] - ret.before[d] >= min_delay_between_requests
       /\ DOMAIN domain_last_request = DOMAIN ret.before \cup {d}
       /\ \A e \in DOMAIN ret.before \ {d} : domain_last_request[e] = ret.before[e]

\* a second call for a.com one second after the first slept the remaining
\* second, while blog.b.org kept its entry
C17_Witness ==
  /\ ret.op = "enforce_rate_limit"
  /\ ret.domain = HostA
  /\ HostA \in DOMAIN ret.before
  /\ ret.current_time - ret.before[HostA] = 1
  /\ ret.sleeps = <<1>>
  /\ HostSub \in DOMAIN ret.before

\* ===================================================== the Validator alone
\* The rules of a RobotFileParser: allow_all, and the paths its parsed
\* robots.txt disallows for "*".
RobotsPaths == {"/", "/post1"}

\* crawler/validation.py is_allowed_by_robots 107-110 turned around: a failed
\* fetch forbids everything
OnRobotsFailure_DenyAll == [allow_all |-> FALSE, disallow |-> RobotsPaths]

\* crawler/validation.py is_allowed_by_robots 107-110: rp.allow_all = True
OnRobotsFailure == [allow_all |-> TRUE, disallow |-> {}]

\* what the request for robots.txt can give: an exception, a status other
\* than 200, a 200 whose body cannot be read, or a 200 with rules
RobotsAnswers ==
  {[fetch |-> "Timeout", status_code |-> 0, parses |-> TRUE, disallow |-> {}],
   [fetch |-> "ok", status_code |-> 404, parses |-> TRUE, disallow |-> {}],
   [fetch |-> "ok", status_code |-> 200, parses |-> FALSE, disallow |-> {}]} \cup
  {[fetch |-> "ok", status_code |-> 200, parses |-> TRUE, disallow |-> paths] :
     paths \in {{}, {"/post1"}, RobotsPaths}}

\* crawler/validation.py is_allowed_by_robots 101-110: the parser built from
\* the response
Rules(answer) ==
  IF answer.fetch = "ok" /\ answer.status_code = 200 /\ answer.parses
    THEN [allow_all |-> FALSE, disallow |-> answer.disallow]
    ELSE OnRobotsFailure

\* urllib.robotparser RobotFileParser.can_fetch("*", url)
can_fetch(rp, url) == rp.allow_all \/ url.path \notin rp.disallow

\* crawler/validation.py is_allowed_by_robots 97, never finding the domain
InRobotsCache_Never(cache, domain) == FALSE

\* crawler/validation.py is_allowed_by_robots 97:
\* `if domain in self.robots_cache`
InRobotsCache(cache, domain) == domain \in DOMAIN cache

\* crawler/validation.py is_allowed_by_robots: the result, the cache it
\* leaves and whether it requested robots.txt. `answer` is what the request
\* would give, `internal_error` whether the check itself raises after the
\* cache was consulted.
is_allowed_by_robots(cache, url, answer, internal_error) ==
  LET domain == extract_domain(url)
  IN IF domain = <<>>
       THEN [result |-> TRUE, robots_cache |-> cache, requested |-> FALSE]
     ELSE LET hit == InRobotsCache(cache, domain)
              rp == IF hit THEN cache[domain] ELSE Rules(answer)
          IN [result |-> IF internal_error THEN TRUE ELSE can_fetch(rp, url),
              robots_cache |-> IF hit THEN cache ELSE Put(cache, domain, rp),
              requested |-> ~hit]

ValidatorUrls == {SeedA, SeedWwwA, LinkA, SeedSub, LinkSub, SeedBad}

\* crawler/validation.py is_allowed_by_robots 86-117, called on its own; a
\* call that makes no request is enumerated with one answer only, which it
\* never looks at
IsAllowedByRobots ==
  /\ \E url \in ValidatorUrls, answer \in RobotsAnswers, internal_error \in BOOLEAN :
       LET domain == extract_domain(url)
           call == is_allowed_by_robots(robots_cache, url, answer, internal_error)
           earlier == IF domain \in DOMAIN robots_fetches
                        THEN robots_fetches[domain] ELSE <<>>
       IN /\ ~call.requested => answer.fetch = "Timeout"
          /\ robots_cache' = call.robots_cache
          /\ robots_fetches' =
               IF call.requested
                 THEN Put(robots_fetches, domain, Append(earlier, answer))
                 ELSE robots_fetches
          /\ armed' = IF call.requested THEN armed \ {domain} ELSE armed
          /\ ret' = [op |-> "is_allowed_by_robots", url |-> url,
                     domain |-> domain,
                     hit |-> domain # <<>> /\ ~call.requested,
                     internal_error |-> internal_error,
                     result |-> call.result,
                     requests |-> IF call.requested
                                    THEN Requests(armed, domain, <<"/robots.txt">>)
                                    ELSE <<>>]
  /\ UNCHANGED <<engine_vars, domain_last_request, now, visit>>

InitValidator ==
  /\ NoEngine
  /\ robots_cache = <<>>
  /\ domain_last_request = {}
  /\ UnitsIdle

NextValidator == IsAllowedByRobots

SpecValidator == InitValidator /\ [][NextValidator]_vars

\* C18: in any sequence of is_allowed_by_robots calls, robots.txt is
\* requested at most once per canonical domain: the first query for a domain
\* requests it and populates the cache, and every later query for the domain,
\* whatever the URL, makes no request and is answered from the cached rules.
C18_RobotsFetchedOnce ==
  /\ \A d \in DOMAIN robots_fetches : Len(robots_fetches[d]) <= 1
  /\ DOMAIN robots_fetches = DOMAIN robots_cache
  /\ ret.op = "is_allowed_by_robots" /\ ret.domain # <<>> =>
       /\ ret.domain \in DOMAIN robots_cache
       /\ ~ret.hit => Len(ret.requests) = 1
       /\ ret.hit => ret.requests = <<>>
       /\ ret.hit /\ ~ret.internal_error =>
            ret.result = can_fetch(robots_cache[ret.domain], ret.url)

\* a query for https://a.com/post1 was refused from the rules cached by an
\* earlier query for a.com
C18_Witness ==
  /\ ret.op = "is_allowed_by_robots"
  /\ ret.hit
  /\ ret.url = LinkA
  /\ ret.result = FALSE
  /\ Len(robots_fetches[HostA]) = 1

\* the robots.txt request of a domain failed: it raised or its status was
\* not 200
FailedOpen(d) ==
  /\ d \in DOMAIN robots_fetches
  /\ \E k \in 1..Len(robots_fetches[d]) :
       \/ robots_fetches[d][k].fetch # "ok"
       \/ robots_fetches[d][k].status_code # 200

\* C19: the robots check fails open: once the robots.txt request of a domain
\* raised or answered a status other than 200, allow-all rules are cached for
\* the domain and this and every later query for a URL of the domain returns
\* true; a check that fails in any other way returns true as well.
C19_RobotsFailOpen ==
  /\ \A d \in DOMAIN robots_fetches :
       FailedOpen(d) =>
         /\ d \in DOMAIN robots_cache
         /\ robots_cache[d].allow_all
         /\ ret.op = "is_allowed_by_robots" /\ ret.domain = d => ret.result = TRUE
  /\ ret.op = "is_allowed_by_robots" /\ ret.internal_error => ret.result = TRUE

\* after robots.txt of blog.b.org answered 404, a later query for
\* https://blog.b.org/post1 was allowed from the cache
C19_Witness ==
  /\ ret.op = "is_allowed_by_robots"
  /\ ret.url = LinkSub
  /\ ret.hit
  /\ ~ret.internal_error
  /\ ret.result = TRUE
  /\ HostSub \in DOMAIN robots_fetches
  /\ robots_fetches[HostSub][1].status_code = 404

\* C20: discover_feeds never raises: when the root fetch times out, cannot
\* connect, answers an HTTP error status or raises any other exception, and
\* when parsing the fetched document raises, it returns ([], 'unreachable').
C20_DiscoverFeedsNeverRaises ==
  ret.op = "discover_feeds" =>
    /\ ret.result # Raised
    /\ ret.result[2] \in {"success", "has_blog_indicators", "no_blog_indicators",
                          "unreachable"}
    /\ ret.page.fetch # "ok" \/ ~ret.page.parses =>
         ret.result = <<<<>>, "unreachable">>

\* a root fetch that raised an exception none of the first three handlers
\* names came back as unreachable
C20_Witness ==
  /\ ret.op = "discover_feeds"
  /\ ret.page.fetch = "TooManyRedirects"
  /\ ret.result = <<<<>>, "unreachable">>
  /\ Len(ret.requests) = 1

\* ================================================== save_results alone
\* The discovered blogs save_results is handed, in the order of the dict:
\* each with the published date of its latest post (models.py BlogPost:
\* Optional[datetime]), a day number or None.
SavedDomains == <<HostA, HostB, HostSub, HostANet, HostBNet>>

PublishedDates == {None, Some(1), Some(2), Some(3)}

SavedBlogs ==
  UNION {[1..n -> PublishedDates] : n \in 0..MaxSaved}

\* engine.py save_results 375-381: blogs_list, the records in dict order
blogs_list(dates) ==
  [i \in 1..Len(dates) |->
     [domain |-> SavedDomains[i], latest_post |-> [published |-> dates[i]]]]

\* engine.py save_results 384: b['latest_post']['published'] or '', a
\* datetime or the empty string
SortKey(b) ==
  IF b.latest_post.published = None
    THEN [type |-> "str", value |-> 0]
    ELSE [type |-> "datetime", value |-> b.latest_post.published[1]]

\* list.sort compares keys with <: a datetime and a str do not compare
\* (TypeError), and a sort of a list that holds both compares one with
\* the other
SortRaises(list) ==
  \E i, j \in 1..Len(list) : SortKey(list[i]).type # SortKey(list[j]).type

\* list.sort(key=..., reverse=True) for keys that compare: descending and
\* stable, every record behind the earlier ones whose key is not smaller
RECURSIVE SortedDescending(_, _)
SortedDescending(list, done) ==
  IF list = <<>> THEN done
  ELSE LET b == Head(list)
           ahead == Cardinality({i \in 1..Len(done) :
                                   SortKey(done[i]).value >= SortKey(b).value})
       IN SortedDescending(Tail(list), InsertAt(done, ahead, b))

\* engine.py save_results 370-398: what it writes to the results file, or
\* the exception that leaves it before the file is opened
save_results(dates) ==
  LET list == blogs_list(dates)
  IN IF SortRaises(list)
       THEN [raised |-> TRUE, blogs |-> <<>>]
       ELSE [raised |-> FALSE, blogs |-> SortedDescending(list, <<>>)]

\* engine.py save_results, called on its own
SaveResults ==
  /\ ret.op = "call"
  /\ ret' = [op |-> "save_results", dates |-> ret.args,
             written |-> save_results(ret.args)]
  /\ UNCHANGED <<engine_vars, robots_cache, domain_last_request, now,
                 robots_fetches, armed, visit>>

InitResults == Calling(SavedBlogs)

NextResults == SaveResults

SpecResults == InitResults /\ [][NextResults]_vars

\* C21: for every set of discovered blogs, also one that mixes records with
\* and without a published date, save_results writes the `blogs` array with
\* all the records, sorted by latest_post.published descending, the records
\* without a date last.
C21_ResultsSorted ==
  ret.op = "save_results" =>
    LET blogs == ret.written.blogs
        n == Len(ret.dates)
    IN /\ ~ret.written.raised
       /\ Len(blogs) = n
       /\ {blogs[i].domain : i \in 1..n} = {SavedDomains[i] : i \in 1..n}
       /\ \A i, j \in 1..n :
            i < j =>
              LET p == blogs[i].latest_post.published
                  q == blogs[j].latest_post.published
              IN /\ p = None => q = None
                 /\ p # None /\ q # None => p[1] >= q[1]

\* ================================================ get_base_domain alone
DomainLabels == {"a", "blog", "example", "co", "uk", "com"}

BaseDomainInputs ==
  UNION {[1..n -> DomainLabels] : n \in 0..MaxLabels}

\* crawler/utils.py get_base_domain, called on its own
GetBaseDomain ==
  /\ ret.op = "call"
  /\ ret' = [op |-> "get_base_domain", domain |-> ret.args,
             result |-> get_base_domain(ret.args)]
  /\ UNCHANGED <<engine_vars, robots_cache, domain_last_request, now,
                 robots_fetches, armed, visit>>

InitBaseDomain == Calling(BaseDomainInputs)

NextBaseDomain == GetBaseDomain

SpecBaseDomain == InitBaseDomain /\ [][NextBaseDomain]_vars

\* the last k labels of a domain
LastLabels(domain, k) == SubSeq(domain, Len(domain) - k + 1, Len(domain))

\* C22: get_base_domain returns a domain of at most two labels unchanged; of
\* a longer one it returns the last three labels when the label before the
\* last is one of co, com, ac, gov, org, net, and the last two otherwise; so
\* a.blog.example.co.uk gives example.co.uk and blog.example.com gives
\* example.com.
C22_BaseDomain ==
  /\ ret.op = "get_base_domain" =>
       LET d == ret.domain
           n == Len(d)
       IN ret.result =
            IF n <= 2 THEN d
            ELSE IF d[n - 1] \in {"co", "com", "ac", "gov", "org", "net"}
              THEN LastLabels(d, 3)
              ELSE LastLabels(d, 2)
  /\ ret.op = "get_base_domain"
       /\ ret.domain = <<"a", "blog", "example", "co", "uk">> =>
         ret.result = <<"example", "co", "uk">>
  /\ ret.op = "get_base_domain" /\ ret.domain = <<"blog", "example", "com">> =>
       ret.result = <<"example", "com">>

\* get_base_domain was handed a.blog.example.co.uk
C22_Witness ==
  /\ ret.op = "get_base_domain"
  /\ ret.domain = <<"a", "blog", "example", "co", "uk">>
  /\ ret.result = <<"example", "co", "uk">>

\* ============================================== claims about one item
\* C23: when feed discovery returned candidates and none of them yields
\* posts, the domain is added to failed_domains, its base domain is added to
\* failed_base_domains exactly when it is in BLACKLIST_BASE_DOMAIN_SITES,
\* whether or not the domain is a subdomain, and discovered_blogs is left as
\* it was.
C23_FeedlessSite ==
  [][(pc = "feeds" /\ outcome' = "feeds_failed") =>
       LET d == DomainOf(cur[1])
           base == get_base_domain(d)
       IN /\ failed_domains' = failed_domains \cup {d}
          /\ failed_base_domains' =
               IF base \in BLACKLIST_BASE_DOMAIN_SITES
                 THEN failed_base_domains \cup {base}
                 ELSE failed_base_domains
          /\ (base \in failed_base_domains') <=>
               (base \in BLACKLIST_BASE_DOMAIN_SITES)
          /\ discovered_blogs' = discovered_blogs]_vars

\* x.github.io had candidates but no posts: github.io is blacklisted, though
\* x.github.io is a subdomain
C23_Witness ==
  /\ pc = "after"
  /\ outcome = "feeds_failed"
  /\ HostGithubX \in failed_domains
  /\ failed_base_domains = {<<"github", "io">>}
  /\ HostGithubX \notin DOMAIN discovered_blogs

\* C24: while a popped item is handled, failed_base_domains changes only by
\* gaining the item's base domain, and only (i) on an unreachable or
\* no_blog_indicators answer for a domain that is its own base, or (ii) when
\* all feeds failed and the base is in BLACKLIST_BASE_DOMAIN_SITES; every
\* other outcome (no domain, blacklisted base, already processed, robots
\* disallow, an empty candidate list, success, an exception) leaves it as it
\* was.
C24_BaseBlacklistFrame ==
  [][/\ (pc' # "constructed" /\ failed_base_domains' # failed_base_domains) =>
          /\ pc = "feeds"
          /\ LET d == DomainOf(cur[1])
                 base == get_base_domain(d)
             IN /\ failed_base_domains' = failed_base_domains \cup {base}
                /\ \/ outcome' \in {"unreachable", "no_blog_indicators"} /\ d = base
                   \/ /\ outcome' = "feeds_failed"
                      /\ base \in BLACKLIST_BASE_DOMAIN_SITES
     /\ (pc \in {"classify", "feeds"}
           /\ outcome' \in {"no_domain", "blacklisted", "already_processed",
                            "robots_disallowed", "no_feeds", "discovered",
                            "raised"}) =>
          failed_base_domains' = failed_base_domains]_vars

\* tumblr.com, its own base domain, was unreachable and is blacklisted
C24_Witness ==
  /\ pc = "after"
  /\ outcome = "unreachable"
  /\ failed_base_domains = {HostTumblr}


\* C25: when robots.txt disallows the popped URL, crawl_blog returns with
\* the domain in processed_domains, with failed_domains, failed_base_domains
\* and discovered_blogs as they were, and without feed discovery or a feed
\* fetch: no request is made to the site and the feed stage is not entered.
C25_RobotsDisallow ==
  [][(pc = "classify" /\ outcome' = "robots_disallowed") =>
       /\ DomainOf(cur[1]) \in processed_domains'
       /\ failed_domains' = failed_domains
       /\ failed_base_domains' = failed_base_domains
       /\ discovered_blogs' = discovered_blogs
       /\ domain_last_request' = domain_last_request
       /\ blogs_to_process' = blogs_to_process
       /\ pc' = "after"
       /\ success' = FALSE]_vars

\* x.github.io was disallowed by its robots.txt: processed, and nothing else
C25_Witness ==
  /\ pc = "after"
  /\ outcome = "robots_disallowed"
  /\ HostGithubX \in processed_domains
  /\ HostGithubX \notin failed_domains
  /\ failed_base_domains = {}
  /\ HostGithubX \notin DOMAIN discovered_blogs
  /\ HostGithubX \notin domain_last_request


\* C26: a popped item whose domain is already in processed_domains is
\* skipped by crawl_blog: it returns False with no robots check, no request
\* to the site, and every set and the frontier as they were.  So within one
\* run the robots check is made only for a domain that was not checked
\* before, and feed discovery only for a domain no request went to before.
C26_OncePerDomain ==
  [][/\ (/\ pc = "classify"
         /\ pc' # "interrupted"
         /\ DomainOf(cur[1]) \in processed_domains) =>
          /\ outcome' \in {"already_processed", "blacklisted"}
          /\ pc' = "after"
          /\ success' = FALSE
          /\ UNCHANGED <<state_vars, blogs_to_process, robots_cache,
                         domain_last_request>>
     /\ (pc = "classify" /\ (pc' = "feeds" \/ outcome' = "robots_disallowed")) =>
          /\ DomainOf(cur[1]) \notin processed_domains
          /\ DomainOf(cur[1]) \notin robots_cache
     /\ (pc = "feeds" /\ pc' # "interrupted") =>
          DomainOf(cur[1]) \notin domain_last_request]_vars

\* y.github.io, discovered earlier, was popped again and skipped
C26_Witness ==
  /\ pc = "after"
  /\ outcome = "already_processed"
  /\ HostGithubY \in DOMAIN discovered_blogs
  /\ HostGithubY \in processed_domains


\* ============================================================ the frontier
\* add_to_queue and popleft on their own, under each queue_strategy.  Seeds
\* arrive by append (run_discovery 316), at the start of a run and after a
\* resume; `visit` logs the arrivals, the add_to_queue calls and the pops.
MaxQueue == 3

QueueUrls == <<LinkA, LinkB, LinkSub, LinkBNet, LinkGithubY>>

QueueSeeds == <<SeedAExample, SeedTumblr>>

\* engine.py add_to_queue 118: blog_item = (blog_url, source_info); crawl_blog
\* 274-281 passes new_depth = parent_depth + 1, the default call passes 0
QueueItem(n, new_depth) ==
  <<QueueUrls[n],
    IF new_depth > 0
      THEN Some([source_blog |-> SeedAExample,
                 source_blog_name |-> HostAExample,
                 source_post_title |-> PostTitle(1),
                 source_post_link |-> PostLink(1),
                 parent_depth |-> new_depth - 1])
      ELSE None>>

InitQueue ==
  /\ EngineIdle({<<>>})
  /\ cfg.max_blogs = MaxTarget
  /\ cfg.checkpoint_interval = 1
  /\ ~cfg.load_from_checkpoint
  /\ robots_cache = {}
  /\ domain_last_request = {}
  /\ now = 0
  /\ ret = [op |-> "none"]
  /\ robots_fetches = <<>>
  /\ armed = {}
  /\ visit = [at |-> "queue", arrived |-> <<>>, enqueued |-> <<>>,
              popped |-> <<>>, seeded |-> 0]

QueueFrame ==
  UNCHANGED <<pc, run, cfg, seed_blogs, state_vars, state_blogs_to_process,
              file, cur, success, outcome, blogs_crawled_since_checkpoint, io,
              load_ok, restored, robots_cache, domain_last_request, now,
              robots_fetches, armed>>

\* engine.py run_discovery 316: self.blogs_to_process.append((blog_url, None))
AppendSeed ==
  /\ visit.seeded < Len(QueueSeeds)
  /\ LET blog_item == <<QueueSeeds[visit.seeded + 1], None>>
     IN /\ blogs_to_process' = Append(blogs_to_process, blog_item)
        /\ ret' = [op |-> "append", before |-> blogs_to_process,
                   blog_item |-> blog_item]
        /\ visit' = [visit EXCEPT !.arrived = Append(@, blog_item),
                                  !.seeded = @ + 1]
  /\ QueueFrame

\* engine.py add_to_queue, called once
AddToQueue ==
  /\ Len(visit.enqueued) < MaxQueue
  /\ \E new_depth \in 0..1 :
       LET blog_item == QueueItem(Len(visit.enqueued) + 1, new_depth)
       IN /\ blogs_to_process' \in
               add_to_queue(blogs_to_process, blog_item, new_depth)
          /\ ret' = [op |-> "add_to_queue", before |-> blogs_to_process,
                     blog_item |-> blog_item, new_depth |-> new_depth]
          /\ visit' = [visit EXCEPT !.arrived = Append(@, blog_item),
                                    !.enqueued = Append(@, blog_item)]
  /\ QueueFrame

\* engine.py run_discovery 324: blog_item = self.blogs_to_process.popleft()
PopLeft ==
  /\ blogs_to_process # <<>>
  /\ blogs_to_process' = Tail(blogs_to_process)
  /\ ret' = [op |-> "popleft", before |-> blogs_to_process,
             blog_item |-> Head(blogs_to_process)]
  /\ visit' = [visit EXCEPT !.popped = Append(@, Head(blogs_to_process))]
  /\ QueueFrame

NextQueue ==
  \/ AppendSeed
  \/ AddToQueue
  \/ PopLeft

SpecQueue == InitQueue /\ [][NextQueue]_vars

\* the items add_to_queue placed that are still in the queue `q`, in the
\* order of the calls
PendingEnqueued(q) ==
  SelectSeq(visit.enqueued, LAMBDA it : it \in Range(q))

\* C27: a pop takes the front item and leaves the rest in order.  Under
\* breadth_first add_to_queue puts the item behind all pending items, and the
\* items popped so far followed by the pending ones are the items in their
\* order of arrival.  Under depth_first add_to_queue puts the item in front of
\* all pending items, and a pop takes the item of the most recent add_to_queue
\* call that is still pending.
C27_FrontierOrder ==
  /\ ret.op = "popleft" =>
       /\ ret.blog_item = Head(ret.before)
       /\ blogs_to_process = Tail(ret.before)
  /\ cfg.queue_strategy = "breadth_first" =>
       /\ ret.op = "add_to_queue" =>
            blogs_to_process = Append(ret.before, ret.blog_item)
       /\ visit.popped \o blogs_to_process = visit.arrived
  /\ cfg.queue_strategy = "depth_first" =>
       /\ ret.op = "add_to_queue" =>
            blogs_to_process = <<ret.blog_item>> \o ret.before
       /\ (ret.op = "popleft" /\ PendingEnqueued(ret.before) # <<>>) =>
            LET pending == PendingEnqueued(ret.before)
            IN ret.blog_item = pending[Len(pending)]

\* depth_first: two items were placed in front of a seed, and the pop took
\* the second of them
C27_Witness ==
  /\ cfg.queue_strategy = "depth_first"
  /\ ret.op = "popleft"
  /\ ret.before = <<QueueItem(2, 1), QueueItem(1, 1), <<QueueSeeds[1], None>>>>
  /\ ret.blog_item = QueueItem(2, 1)

\* C28: one add_to_queue call inserts the item once, at some index in
\* [0, length], and keeps the pending items in their order; under mixed the
\* index is the back, or lies in [0, max(1, length / 2)] when new_depth > 0
\* and the queue was not empty.
C28_OneInsertion ==
  ret.op = "add_to_queue" =>
    LET q == ret.before
    IN /\ Len(blogs_to_process) = Len(q) + 1
       /\ \E pos \in 0..Len(q) :
            /\ blogs_to_process = InsertAt(q, pos, ret.blog_item)
            /\ cfg.queue_strategy = "mixed" =>
                 \/ pos = Len(q)
                 \/ /\ pos \in 0..Max(1, Len(q) \div 2)
                    /\ ret.new_depth > 0
                    /\ Len(q) > 0
       /\ SelectSeq(blogs_to_process, LAMBDA it : it # ret.blog_item) = q

\* mixed: an item of depth 1 went to index 1 of a queue of four
C28_Witness ==
  /\ cfg.queue_strategy = "mixed"
  /\ ret.op = "add_to_queue"
  /\ ret.new_depth = 1
  /\ Len(ret.before) = 4
  /\ blogs_to_process = InsertAt(ret.before, 1, ret.blog_item)
  /\ blogs_to_process # Append(ret.before, ret.blog_item)


\* ============================================================ the cadence
\* the blogs discovered since run_discovery began
DiscoveredThisRun == Cardinality(DOMAIN discovered_blogs) - restored

\* C29: within a run the count of successes since the last periodic
\* checkpoint stays below K and equals the number of blogs discovered in the
\* run modulo K at every iteration boundary.  After crawl_blog returns, a
\* checkpoint is attempted exactly when the item succeeded and the count
\* reaches K, and the count then restarts at 0; a failed or skipped item, and
\* one that raised, leaves the count as it was and writes nothing.
C29_Cadence ==
  /\ [](pc \in {"loop", "classify", "feeds"} =>
          /\ blogs_crawled_since_checkpoint < cfg.checkpoint_interval
          /\ blogs_crawled_since_checkpoint =
               DiscoveredThisRun % cfg.checkpoint_interval)
  /\ [][/\ (pc = "after" /\ pc' = "loop") =>
             LET count == blogs_crawled_since_checkpoint
                            + (IF success THEN 1 ELSE 0)
                 due == success /\ count = cfg.checkpoint_interval
             IN /\ (io' \in {"written", "failed"}) <=> due
                /\ io' = "none" <=> ~due
                /\ blogs_crawled_since_checkpoint' = IF due THEN 0 ELSE count
        /\ (pc \in {"classify", "feeds"} /\ pc' \in {"after", "loop", "feeds"}) =>
             /\ blogs_crawled_since_checkpoint' = blogs_crawled_since_checkpoint
             /\ io' = "none"
             /\ pc' = "after" => (success' <=> outcome' = "discovered")]_vars

\* with K = 2, the second discovery of the run was followed by a periodic
\* checkpoint and the count is back at 0
C29_Witness ==
  /\ pc = "loop"
  /\ cfg.checkpoint_interval = 2
  /\ io = "written"
  /\ DiscoveredThisRun = 2
  /\ blogs_crawled_since_checkpoint = 0


\* ============================================================ the loop exit
\* engine.py run_discovery 323: the loop condition is false
BudgetReachedOrExhausted ==
  \/ blogs_to_process = <<>>
  \/ Cardinality(DOMAIN discovered_blogs) >= cfg.max_blogs

\* C30: run_discovery passes from its loop to its end only when the frontier
\* is empty or len(discovered_blogs) >= max_blogs, and that step is one
\* save_checkpoint call: the frontier is left alone and copied into the
\* state, and the file, when the write goes through, holds the pending items
\* in their order.  Once the loop condition is false, the next step, unless
\* the run is interrupted, is this exit.
C30_FinalCheckpoint ==
  /\ [](pc = "done" =>
          /\ BudgetReachedOrExhausted
          /\ io \in {"written", "failed"}
          /\ state_blogs_to_process = blogs_to_process
          /\ io = "written" =>
               /\ file.kind = "valid"
               /\ file.data.blogs_to_process = blogs_to_process)
  /\ [][/\ (pc # "done" /\ pc' = "done") =>
             /\ pc = "loop"
             /\ BudgetReachedOrExhausted
             /\ blogs_to_process' = blogs_to_process
             /\ io' \in {"written", "failed"}
        /\ (pc = "loop" /\ BudgetReachedOrExhausted /\ pc' # "interrupted") =>
             pc' = "done"
        /\ (pc = "done" /\ pc' = "done") => UNCHANGED <<file, io>>]_vars

\* the target was reached with an item still pending: the final checkpoint
\* holds that frontier
C30_Witness ==
  /\ pc = "done"
  /\ io = "written"
  /\ Cardinality(DOMAIN discovered_blogs) >= cfg.max_blogs
  /\ blogs_to_process # <<>>
  /\ file.data.blogs_to_process = blogs_to_process


\* ============================================================ the seeding
\* C31: the seeding step leaves the restored frontier in front and appends,
\* in the order of the seed list, one source-less item for every seed whose
\* domain is not in processed_domains, and no other item; afterwards
\* queued_domains is the set of the non-empty domains of all frontier items.
\* A source-less item is given depth 0.
C31_Seeding ==
  [][(pc = "constructed" /\ pc' = "loop") =>
       LET old == Len(blogs_to_process)
           new == Len(blogs_to_process') - old
           kept == {i \in 1..Len(seed_blogs) :
                      extract_domain(seed_blogs[i]) \notin processed_domains}
       IN /\ new = Cardinality(kept)
          /\ SubSeq(blogs_to_process', 1, old) = blogs_to_process
          /\ \A k \in 1..new :
               LET item == blogs_to_process'[old + k]
               IN /\ item[2] = None
                  /\ blog_depth(item[2]) = 0
                  /\ \E i \in kept :
                       /\ seed_blogs[i] = item[1]
                       /\ Cardinality({j \in kept : j <= i}) = k
          /\ queued_domains' =
               {extract_domain(blogs_to_process'[i][1]) :
                  i \in 1..Len(blogs_to_process')} \ {<<>>}
          /\ processed_domains' = processed_domains]_vars

\* a resumed run: x.github.io is processed and its seed is skipped, the seed
\* of y.github.io is appended behind the restored item
C31_Witness ==
  /\ pc = "loop"
  /\ run = 2
  /\ cur = None
  /\ seed_blogs = <<SeedGithubX, SeedGithubY>>
  /\ HostGithubX \in processed_domains
  /\ blogs_to_process = <<<<SeedGithubY, None>>, <<SeedGithubY, None>>>>
  /\ queued_domains = {HostGithubY}


\* ===================================================== the posts of a feed
\* One blog visit on a feed of `entries` entries, by an engine constructed
\* with max_posts_to_check.
MaxEntries == 45

\* config.py Settings.MAX_POSTS_TO_CHECK
MAX_POSTS_TO_CHECK == 40

\* the values of max_posts_to_check an engine is constructed with: the
\* default, the 20 of the tests, and 1
PostLimits == {1, 20, MAX_POSTS_TO_CHECK}

PostVisits ==
  [max_posts_to_check : PostLimits, entries : 0..MaxEntries]

\* crawler/network.py fetch_feed 252-253:
\* feed.entries[:settings.MAX_POSTS_TO_CHECK], one post per entry
feed_posts(entries) ==
  LET n == IF entries <= MAX_POSTS_TO_CHECK THEN entries ELSE MAX_POSTS_TO_CHECK
  IN [i \in 1..n |-> Post(i, <<>>)]

\* engine.py __init__ 33 stores max_posts_to_check, Fetcher() at 50 is given
\* nothing; crawl_blog 213 and 257-263: posts = fetch_feed(feed_url), and
\* every post is scanned for links
VisitPosts ==
  /\ ret.op = "call"
  /\ LET posts == feed_posts(ret.args.entries)
     IN ret' = [op |-> "crawl_blog",
                max_posts_to_check |-> ret.args.max_posts_to_check,
                entries |-> ret.args.entries,
                posts |-> Len(posts),
                scanned |-> Len(posts)]
  /\ UNCHANGED <<engine_vars, robots_cache, domain_last_request, now,
                 robots_fetches, armed, visit>>

InitPosts == Calling(PostVisits)

NextPosts == VisitPosts

SpecPosts == InitPosts /\ [][NextPosts]_vars

\* C32: the posts produced from one feed, and the posts scanned for links in
\* the visit, are at most the max_posts_to_check of the engine.
C32_PostsBounded ==
  ret.op = "crawl_blog" =>
    /\ ret.posts <= ret.max_posts_to_check
    /\ ret.scanned <= ret.max_posts_to_check


\* ============================================================ provenance
\* C33: the record of a blog that was popped with a DiscoverySource keeps,
\* in discovered_from, the source blog URL, the source blog name, the source
\* post title and the source post link of that DiscoverySource.
C33_SourceRetained ==
  [][(pc = "feeds" /\ outcome' = "discovered" /\ cur[1][2] # None) =>
       LET source_info == cur[1][2][1]
           record == discovered_blogs'[DomainOf(cur[1])]
       IN /\ record.discovered_from # None
          /\ LET from == record.discovered_from[1]
             IN /\ from.source_blog = source_info.source_blog
                /\ from.source_blog_name = source_info.source_blog_name
                /\ from.post_link = Some(source_info.source_post_link)
                /\ \E f \in DOMAIN from \cap {"post_title", "source_post_title"} :
                     from[f] \in {source_info.source_post_title,
                                  Some(source_info.source_post_title)}]_vars


\* ===================================================== the politeness delay
\* The body of the run_discovery loop against the clock: crawl_blog ends
\* after `took` seconds.
MaxPopped == 4

\* engine.py run_discovery 346: time.sleep(1)
politeness_delay == 1

\* how crawl_blog can end, seen from run_discovery 337-354: True, False by
\* one of its returns, or an Exception
ItemResults ==
  {"discovered", "no_domain", "blacklisted", "already_processed",
   "robots_disallowed", "unreachable", "no_blog_indicators", "no_feeds",
   "feeds_failed", "raised"}

InitLoop ==
  /\ NoEngine
  /\ robots_cache = {}
  /\ domain_last_request = {}
  /\ now = 0
  /\ ret = [op |-> "none"]
  /\ robots_fetches = <<>>
  /\ armed = {}
  /\ visit = [at |-> "loop", popped |-> 0]

\* engine.py run_discovery 324-354: pop, crawl_blog inside the try, then
\* time.sleep(1) inside the same try; `except Exception` goes on to the next
\* pop with `continue`
Iterate ==
  /\ visit.popped < MaxPopped
  /\ \E result \in ItemResults, took \in 0..1 :
       LET returned == now + took
           slept == IF result = "raised" THEN 0 ELSE politeness_delay
       IN /\ returned + slept <= MaxNow
          /\ now' = returned + slept
          /\ ret' = [op |-> "iteration", result |-> result,
                     returned |-> returned, next_pop |-> returned + slept]
  /\ visit' = [visit EXCEPT !.popped = @ + 1]
  /\ UNCHANGED <<engine_vars, robots_cache, domain_last_request,
                 robots_fetches, armed>>

NextLoop == Iterate

SpecLoop == InitLoop /\ [][NextLoop]_vars

\* C34: after every item handed to crawl_blog, whether it succeeded, failed,
\* was skipped or raised an exception that run_discovery caught, the next pop
\* comes no sooner than the politeness delay after crawl_blog ended.
C34_DelayAfterEveryItem ==
  ret.op = "iteration" => ret.next_pop >= ret.returned + politeness_delay


\* ================================================ the frontier and its set
\* C35: at the head of the run_discovery loop every pending item with a
\* domain has it in queued_domains or in processed_domains, and every member
\* of queued_domains is the domain of a pending item.
C35_FrontierTracked ==
  pc = "loop" =>
    /\ \A i \in 1..Len(blogs_to_process) :
         LET domain == extract_domain(blogs_to_process[i][1])
         IN domain # <<>> =>
              domain \in queued_domains \cup processed_domains
    /\ \A domain \in queued_domains :
         \E i \in 1..Len(blogs_to_process) :
           extract_domain(blogs_to_process[i][1]) = domain

\* between two items: one pending item is tracked by queued_domains, another
\* only by processed_domains
C35_Witness ==
  /\ pc = "loop"
  /\ cur = None
  /\ queued_domains # {}
  /\ \E i \in 1..Len(blogs_to_process) :
       /\ extract_domain(blogs_to_process[i][1]) \in processed_domains
       /\ extract_domain(blogs_to_process[i][1]) \notin queued_domains


\* ==================================================== the fallback paths
\* C36: for every site, discover_feeds returns `success` with a non-empty
\* candidate list when the root fetch succeeded and the page parsed, and
\* `unreachable` with an empty list otherwise; so crawl_blog never leaves by
\* its no_blog_indicators branch nor by its empty-candidate-list branch.
C36_AlwaysCandidates ==
  /\ \A page \in Pages \cup FetcherPages :
       LET found == discover_feeds(page)
       IN /\ found[2] \in {"success", "unreachable"}
          /\ (page.fetch = "ok" /\ page.parses) <=> found[2] = "success"
          /\ found[2] = "success" <=> found[1] # <<>>
  /\ outcome \notin {"no_blog_indicators", "no_feeds"}

\* a page without any feed link or sitemap still got candidates: the site
\* blog.b.org went through the loop over its feeds and none had posts
C36_Witness ==
  /\ pc = "after"
  /\ outcome = "feeds_failed"
  /\ HostSub \in failed_domains
  /\ \E page \in Pages :
       /\ page.fetch = "ok" /\ page.parses
       /\ page.link_feeds = <<>>
       /\ check_sitemap(page).urls = <<>>
       /\ discover_feeds(page) = <<CommonFeeds, "success">>


\* ============================================================ termination
\* run_discovery when no KeyboardInterrupt arrives: the program is
\* sequential and every network call has a timeout, so the step that is
\* enabled is eventually taken.  A later start resumes from the checkpoint.
NextRun ==
  \/ Construct
  \/ Seed
  \/ Pop
  \/ Finish
  \/ CrawlGate
  \/ CrawlFeeds
  \/ CrawlRaises
  \/ AfterCrawl

SpecRun == Init /\ [][NextRun]_vars /\ WF_vars(NextRun)

\* the frontier items that the step added
AddedItems ==
  {blogs_to_process'[i] : i \in 1..Len(blogs_to_process')}
    \ {blogs_to_process[i] : i \in 1..Len(blogs_to_process)}

\* C37: a run that is not interrupted ends: from its construction it reaches
\* the end of run_discovery, where the frontier is empty or the target is
\* reached and the final checkpoint was attempted.  A link is enqueued only
\* for a domain that is neither processed nor pending, so a domain is
\* enqueued by link discovery at most once in a run.
C37_Terminates ==
  /\ (pc = "constructed") ~>
       (/\ pc = "done"
        /\ BudgetReachedOrExhausted
        /\ io \in {"written", "failed"})
  /\ [][pc = "feeds" =>
          \A item \in AddedItems :
            /\ DomainOf(item) \notin processed_domains
            /\ DomainOf(item) \notin queued_domains
            /\ DomainOf(item) \in processed_domains' \cup queued_domains']_vars

\* the frontier was exhausted below the target and the run has ended
C37_Witness ==
  /\ pc = "done"
  /\ io = "written"
  /\ blogs_to_process = <<>>
  /\ processed_domains # {}
  /\ Cardinality(DOMAIN discovered_blogs) < cfg.max_blogs


\* ====================================================== breadth-first depth
\* the run started from the empty state and appends to the back
FreshBreadthFirst ==
  /\ cfg.queue_strategy = "breadth_first"
  /\ ~load_ok
  /\ pc \notin {"boot", "constructed"}

\* C38: in a run that started without a checkpoint, under breadth_first, the
\* depths that the pending items will be given do not decrease from the
\* front of the frontier to its back at the head of the loop, and a record
\* is created with a depth that is at least that of every earlier record.
C38_DepthOrder ==
  /\ []((FreshBreadthFirst /\ pc = "loop") =>
          \A i, j \in 1..Len(blogs_to_process) :
            i < j => blog_depth(blogs_to_process[i][2])
                       <= blog_depth(blogs_to_process[j][2]))
  /\ [][(FreshBreadthFirst /\ pc = "feeds" /\ outcome' = "discovered") =>
          \A d \in DOMAIN discovered_blogs :
            discovered_blogs[d].depth
              <= discovered_blogs'[DomainOf(cur[1])].depth]_vars

\* tumblr.com, a seed, was discovered and its link waits at depth 1 behind
\* the second seed
C38_Witness ==
  /\ FreshBreadthFirst
  /\ pc = "loop"
  /\ HostTumblr \in DOMAIN discovered_blogs
  /\ Len(blogs_to_process) = 2
  /\ blog_depth(blogs_to_process[1][2]) = 0
  /\ blog_depth(blogs_to_process[2][2]) = 1


\* ======================================================= terminal outcomes
\* C39: in every state of a run that started from the empty state, and of
\* the runs that resume it, every failed domain is a processed domain, and no
\* failed domain has a record in discovered_blogs.
C39_OneTerminalOutcome ==
  /\ failed_domains \subseteq processed_domains
  /\ failed_domains \cap DOMAIN discovered_blogs = {}

\* one domain failed, another was discovered, both are processed
C39_Witness ==
  /\ run = 1
  /\ ~load_ok
  /\ pc = "loop"
  /\ failed_domains # {}
  /\ DOMAIN discovered_blogs # {}
  /\ failed_domains \cup DOMAIN discovered_blogs \subseteq processed_domains


\* ====================================================== the discovery graph
\* following discovered_from from the record of `domain` for at most `fuel`
\* steps ends at a record without a source, of depth 0
RECURSIVE ReachesSeed(_, _)
ReachesSeed(domain, fuel) ==
  /\ domain \in DOMAIN discovered_blogs
  /\ LET record == discovered_blogs[domain]
     IN IF record.discovered_from = None THEN record.depth = 0
        ELSE /\ fuel > 0
             /\ ReachesSeed(extract_domain(record.discovered_from[1].source_blog),
                            fuel - 1)

\* C40: from every record the discovered_from links lead, without a cycle, to
\* the record of a seed of depth 0, through records of discovered_blogs only,
\* in every run and after every resume; and when a record with a source is
\* created, the record of its source is already there and stays unchanged.
C40_GraphRooted ==
  /\ [](\A domain \in DOMAIN discovered_blogs :
          ReachesSeed(domain, Cardinality(DOMAIN discovered_blogs) - 1))
  /\ [][(pc = "feeds" /\ outcome' = "discovered" /\ cur[1][2] # None) =>
          LET source == extract_domain(cur[1][2][1].source_blog)
              record == discovered_blogs'[DomainOf(cur[1])]
          IN /\ record.discovered_from # None
             /\ extract_domain(record.discovered_from[1].source_blog) = source
             /\ source \in DOMAIN discovered_blogs
             /\ source # DomainOf(cur[1])
             /\ DomainOf(cur[1]) \notin DOMAIN discovered_blogs
             /\ discovered_blogs'[source] = discovered_blogs[source]]_vars

\* after a resume, y.github.io was discovered from tumblr.com, whose record
\* came from the checkpoint
C40_Witness ==
  /\ run = 2
  /\ pc = "after"
  /\ outcome = "discovered"
  /\ HostTumblr \in DOMAIN discovered_blogs
  /\ HostGithubY \in DOMAIN discovered_blogs
  /\ discovered_blogs[HostGithubY].discovered_from # None
  /\ extract_domain(discovered_blogs[HostGithubY].discovered_from[1].source_blog)
       = HostTumblr
  /\ restored = 1

====
